---- MODULE Spec2Model ----
(***************************************************************************)
(* A model of the Paradrop configuration-convergence core:                 *)
(*   - the chute update object (backend/fc/updateObject.py),               *)
(*   - the confd section handlers for wifi-iface (confd/wireless.py) and   *)
(*     dhcp (backend/pdconfd/config/dhcp.py), driven by the configuration  *)
(*     manager's loadConfig / unload.                                      *)
(* The execution-plan module (exc.executionplan), the command priorities   *)
(* (command.py), the network interface handler and the configuration       *)
(* manager are not part of the source tree at hand; they are modelled from *)
(* the design document and marked so in MODEL_MAP.json.                    *)
(***************************************************************************)
EXTENDS Integers, Sequences, FiniteSets, TLC

VARIABLES
    \* ---- UpdateObject (updateObject.py) ----
    upc,          \* position of execute(): "created", "generated", "aggregated", "returned", "raised"
    updateType,   \* update.updateType
    debugMode,    \* settings.DEBUG_MODE
    failure,      \* update.failure (None or a message)
    responses,    \* update.responses
    plans,        \* update.plans: entries in the order the modules appended them
    genFailed,    \* what generatePlans returned
    aggregated,   \* whether aggregatePlans ran
    aggPlans,     \* the plan as prioritised by aggregatePlans
    executed,     \* plan entries invoked so far, in order
    aborted,      \* abort entries invoked so far, in order
    result,       \* update.result (NoResult until complete() sets it)
    funcCalls,    \* number of times update.func was called
    raisedExc,    \* exception that left execute(), or None
    \* ---- ConfigManager and its section objects ----
    current,           \* manager's current ConfigCollection: section objects in file order
    previousCommands,  \* manager.previousCommands: the last plan emitted
    rollback,          \* revert commands emitted after a failed command
    lastOp,            \* what the last loadConfig / unload did
    prevCurrent,       \* current as it was when the last operation started
    lastNext,          \* the configuration the last loadConfig parsed
    written,           \* derived conf files the last operation wrote in writeDir
    loadedPlan,        \* the plan of the loadConfig that built current from the empty
                       \* collection, while no other operation has followed it
    pidFiles,          \* PID files present in writeDir
    \* ---- dynamic network pool and chute network configuration (network.py) ----
    poolUsed,          \* networkPool: the subnets handed out and not released
    held,              \* the leases outstanding, in the order next() handed them out
    poolOp,            \* what the last call on networkPool did
    chutes,            \* the chutes that exist: name and cache networkInterfaces
    netOp,             \* what the last getNetworkConfig / removeChute did
    \* ---- one call of ConfigWifiIface.apply on a section of its own ----
    genIn,             \* the wifi-iface section and the sections it looks up
    genOut,            \* what apply returned or raised, and the file it wrote
    \* ---- the handlers of one wifi-iface section called in turn (wireless.py) ----
    ifIn,              \* the section as declared and the sections it looks up
    ifApplied,         \* what apply returned or raised
    ifOp,              \* the handler called after apply, its argument and its result
    \* ---- the handlers of dhcp sections called in turn (dhcp.py) ----
    dhIn,              \* the dhcp sections declared and the configuration they look up
    dhRes,             \* per section: what commands() and undoCommands() returned
    dhPids,            \* the PID files present in writeDir
    \* ---- building the image and starting the container of a chute (dockerapi.py) ----
    dkIn,              \* the update, and what the container engine and the host answer
    dkBuild,           \* what buildImage did
    dkStart,           \* what _startChute did
    \* ---- one comparison of two section objects (ConfigObject.optionsMatch) ----
    omSelf,            \* the section optionsMatch is called on
    omOther,           \* the section it is given
    omRes              \* what optionsMatch returned, either way round and on itself

updVars == <<upc, updateType, debugMode, failure, responses, plans, genFailed,
             aggregated, aggPlans, executed, aborted, result, funcCalls, raisedExc>>

confVars == <<current, previousCommands, rollback, lastOp, prevCurrent, lastNext,
              written, loadedPlan, pidFiles>>

netVars == <<poolUsed, held, poolOp, chutes, netOp>>

wifiVars == <<genIn, genOut>>

ifaceVars == <<ifIn, ifApplied, ifOp>>

dhcpVars == <<dhIn, dhRes, dhPids>>

dockerVars == <<dkIn, dkBuild, dkStart>>

sectVars == <<omSelf, omOther, omRes>>

vars == <<updVars, confVars, netVars, wifiVars, ifaceVars, dhcpVars, dockerVars, sectVars>>

None == "None"

(***************************************************************************)
(* Bounds of the model.                                                    *)
(***************************************************************************)
\* most plan entries one update carries
MaxPlans == 2
\* plan priorities range over 1..MaxPlanPrio
MaxPlanPrio == 2

(***************************************************************************)
(* Generic helpers.                                                        *)
(***************************************************************************)
Range(s) == {s[i] : i \in DOMAIN s}

\* Python's stable sort of (priority, ...) records by priority, ascending:
\* an insertion that puts x after every element whose priority is <= x.prio.
RECURSIVE InsertByPrio(_, _)
InsertByPrio(x, s) ==
    IF s = <<>> THEN <<x>>
    ELSE IF Head(s).prio <= x.prio THEN <<Head(s)>> \o InsertByPrio(x, Tail(s))
    ELSE <<x>> \o s

RECURSIVE SortByPrio(_)
SortByPrio(s) ==
    IF s = <<>> THEN <<>>
    ELSE InsertByPrio(s[Len(s)], SortByPrio(SubSeq(s, 1, Len(s) - 1)))

(***************************************************************************)
(* confd: sections and commands                                            *)
(***************************************************************************)
\* An attribute a Python object does not (yet) have; reading it raises
\* AttributeError.
Unset == "unset"

\* Command priorities, low to high.
PRIO_CREATE_IFACE == 1
PRIO_CONFIG_IFACE == 2
PRIO_CREATE_QDISC == 3
PRIO_CREATE_VLAN == 4
PRIO_ADD_LINK == 5
PRIO_START_DAEMON == 6

\* The attributes the handlers attach to a section object at run time
\* (wireless.py: isVirtual, _ifname, pidFile; dhcp.py: pidFile).
UnsetRt == [isVirtual |-> Unset, ifname |-> Unset, pidFile |-> Unset]

\* A freshly parsed section object: identity (type, name), options, and no
\* run-time attribute yet.
Section(type, name, opts) == [type |-> type, name |-> name, opts |-> opts, rt |-> UnsetRt]

Ident(s) == <<s.type, s.name>>

\* ConfigObject equality: identity and all option values match.
SectionEq(a, b) == a.type = b.type /\ a.name = b.name /\ a.opts = b.opts

Has(cfg, type, name) == \E i \in DOMAIN cfg : Ident(cfg[i]) = <<type, name>>

\* ConfigObject.lookup: the section of that type and name (Has must hold)
Lookup(cfg, type, name) == cfg[CHOOSE i \in DOMAIN cfg : Ident(cfg[i]) = <<type, name>>]

\* A command as a handler returns it: (priority, Command(argv, owning section))
Command(prio, argv, self) == [prio |-> prio, argv |-> argv, owner |-> Ident(self)]

\* What a handler call leaves behind: the exception it raised (None: it
\* returned), the commands it returned, the run-time attributes of the object it
\* worked on, and the conf files it opened for writing.
\* `on` names the object whose attributes rt describes: the object the handler
\* was called on ("self") or the new section an update handler was given ("new").
HandlerResult(err, cmds, rt, files) ==
    [err |-> err, cmds |-> cmds, rt |-> rt, files |-> files, on |-> "self"]

\* ---- section types of the configurations explored ----
IntfWifi(itype) ==
    Section("interface", "wifi",
            [ifname |-> "wlan0", itype |-> itype, proto |-> "static",
             ipaddr |-> 167780674, netmask |-> 24])

IntfLan ==
    Section("interface", "lan",
            [ifname |-> "eth1", itype |-> None, proto |-> "static",
             ipaddr |-> 167780674, netmask |-> 24])

WifiDevice(name) ==
    Section("wifi-device", name,
            [dtype |-> "auto", channel |-> "1", hwmode |-> None, htmode |-> None,
             country |-> None])

WifiIface(name, device, mode, ssid, encryption, key, ifname) ==
    Section("wifi-iface", name,
            [device |-> device, mode |-> mode, ssid |-> ssid, network |-> "wifi",
             encryption |-> encryption, key |-> key, ifname |-> ifname,
             hidden |-> FALSE, wmm |-> TRUE, maxassoc |-> None])

Dhcp(name, interface, start, limit) ==
    Section("dhcp", name,
            [interface |-> interface, leasetime |-> "12h", start |-> start,
             limit |-> limit, dhcp_option |-> <<>>])

\* ConfigInterface.config_ifname: br-<name> for a bridge, else the ifname option
config_ifname(interface) ==
    IF interface.opts.itype = "bridge"
    THEN (CASE interface.name = "wifi" -> "br-wifi" [] interface.name = "lan" -> "br-lan")
    ELSE interface.opts.ifname

\* "{}/hostapd-{}.conf".format(writeDir, internalName)
HostapdConfPath(name) ==
    CASE name = "ap1" -> "hostapd-ap1.conf" [] name = "ap2" -> "hostapd-ap2.conf"

\* "{}/hostapd-{}.pid".format(writeDir, internalName)
HostapdPidPath(name) ==
    CASE name = "ap1" -> "hostapd-ap1.pid" [] name = "ap2" -> "hostapd-ap2.pid"

\* "{}/dnsmasq-{}.conf".format(writeDir, self.interface)
DnsmasqConfPath(interface) ==
    CASE interface = "lan" -> "dnsmasq-lan.conf" [] interface = "wifi" -> "dnsmasq-wifi.conf"

\* "{}/dnsmasq-{}.pid".format(writeDir, self.interface)
DnsmasqPidPath(interface) ==
    CASE interface = "lan" -> "dnsmasq-lan.pid" [] interface = "wifi" -> "dnsmasq-wifi.pid"

\* "{}/dnsmasq-{}.leases".format(writeDir, self.interface)
DnsmasqLeasePath(interface) ==
    CASE interface = "lan" -> "dnsmasq-lan.leases" [] interface = "wifi" -> "dnsmasq-wifi.leases"

\* "--conf-file={}".format(outputPath)
ConfFileArg(outputPath) ==
    CASE outputPath = "dnsmasq-lan.conf" -> "--conf-file=dnsmasq-lan.conf"
      [] outputPath = "dnsmasq-wifi.conf" -> "--conf-file=dnsmasq-wifi.conf"

\* "--pid-file={}".format(pidFile)
PidFileArg(pidFile) ==
    CASE pidFile = "dnsmasq-lan.pid" -> "--pid-file=dnsmasq-lan.pid"
      [] pidFile = "dnsmasq-wifi.pid" -> "--pid-file=dnsmasq-wifi.pid"

\* the content of a PID file a daemon wrote
PidContent == "12345"

\* getRandomMAC: "02:xx:xx:xx:xx:xx"; the five random bytes play no part in any
\* decision of the planner and are left abstract.
RandomMAC == "02:xx:xx:xx:xx:xx"

(***************************************************************************)
(* confd: hostapd configuration generator (wireless.py)                    *)
(***************************************************************************)
\* Map hardware mode strings from UCI file to hostapd.conf format.
HOSTAPD_HWMODE == ("11b" :> "b") @@ ("11g" :> "g") @@ ("11a" :> "a")

\* string.hexdigits
hexdigits ==
    {"0", "1", "2", "3", "4", "5", "6", "7", "8", "9",
     "a", "b", "c", "d", "e", "f", "A", "B", "C", "D", "E", "F"}

HexRow ==
    <<"0", "1", "2", "3", "4", "5", "6", "7", "8", "9", "a", "b", "c", "d", "e", "f">>

\* The keys explored, each with its characters: the passphrase and the hex key
\* of the test suite's AP configuration, and keys around the 64-character test.
KeyChars ==
    ("password" :> <<"p", "a", "s", "s", "w", "o", "r", "d">>) @@
    ("hexkey64" :> [i \in 1..64 |-> HexRow[((i - 1) \div 4) + 1]]) @@
    ("upper64" :> [i \in 1..64 |-> "A"]) @@
    ("hexkey63" :> [i \in 1..63 |-> HexRow[((i - 1) % 16) + 1]]) @@
    ("hexkey65" :> [i \in 1..65 |-> HexRow[((i - 1) % 16) + 1]]) @@
    ("nonhex64" :> [i \in 1..64 |-> IF i = 64 THEN "g" ELSE "a"])

\* len(key)
len(data) == Len(KeyChars[data])

\* isHexString(data): all characters are hex digits
isHexString(data) == \A i \in DOMAIN KeyChars[data] : KeyChars[data][i] \in hexdigits

\* HostapdConfGenerator.getMainOptions.  Reads wifiIface._ifname, which only
\* apply() sets.
getMainOptions(wifiIface, wifiDevice, interface) ==
    IF wifiIface.rt.ifname = Unset
    THEN [err |-> "AttributeError", options |-> <<>>]
    ELSE IF wifiDevice.opts.hwmode # None /\ wifiDevice.opts.hwmode \notin DOMAIN HOSTAPD_HWMODE
    THEN [err |-> "Unrecognized hardware mode", options |-> <<>>]
    ELSE [err |-> None,
          options |->
              << <<"interface", wifiIface.rt.ifname>> >>
              \o (IF interface.opts.itype = "bridge"
                  THEN << <<"bridge", config_ifname(interface)>> >> ELSE <<>>)
              \o << <<"ssid", wifiIface.opts.ssid>> >>
              \o (IF wifiDevice.opts.country # None
                  THEN << <<"country_code", wifiDevice.opts.country>>, <<"ieee80211d", "1">> >>
                  ELSE <<>>)
              \o (IF wifiDevice.opts.hwmode # None
                  THEN << <<"hw_mode", HOSTAPD_HWMODE[wifiDevice.opts.hwmode]>> >> ELSE <<>>)
              \o << <<"channel", wifiDevice.opts.channel>> >>
              \o (IF wifiIface.opts.maxassoc # None
                  THEN << <<"max_num_sta", wifiIface.opts.maxassoc>> >> ELSE <<>>)
              \o << <<"wmm_enabled", IF wifiIface.opts.wmm THEN "1" ELSE "0">> >>]

\* getSecurityOptions with the key tested for its length only
getSecurityOptions_lenOnly(wifiIface) ==
    IF wifiIface.opts.encryption = None \/ wifiIface.opts.encryption = "none"
    THEN [err |-> None, options |-> << <<"wpa", "0">> >>]
    ELSE IF wifiIface.opts.encryption = "psk2"
    THEN IF wifiIface.opts.key = None
         THEN [err |-> "TypeError", options |-> <<>>]
         ELSE [err |-> None,
               options |->
                   << <<"wpa", "1">> >>
                   \o (IF len(wifiIface.opts.key) = 64
                       THEN << <<"wpa_psk", wifiIface.opts.key>> >>
                       ELSE << <<"wpa_passphrase", wifiIface.opts.key>> >>)
                   \o << <<"wpa_pairwise", "TKIP CCMP">>, <<"rsn_pairwise", "CCMP">> >>]
    ELSE [err |-> "Encryption type not supported", options |-> <<>>]

\* HostapdConfGenerator.getSecurityOptions
getSecurityOptions(wifiIface) ==
    IF wifiIface.opts.encryption = None \/ wifiIface.opts.encryption = "none"
    THEN [err |-> None, options |-> << <<"wpa", "0">> >>]
    ELSE IF wifiIface.opts.encryption = "psk2"
    THEN IF wifiIface.opts.key = None
         THEN [err |-> "TypeError", options |-> <<>>]
         ELSE [err |-> None,
               options |->
                   << <<"wpa", "1">> >>
                   \o (IF len(wifiIface.opts.key) = 64 /\ isHexString(wifiIface.opts.key)
                       THEN << <<"wpa_psk", wifiIface.opts.key>> >>
                       ELSE << <<"wpa_passphrase", wifiIface.opts.key>> >>)
                   \o << <<"wpa_pairwise", "TKIP CCMP">>, <<"rsn_pairwise", "CCMP">> >>]
    ELSE [err |-> "Encryption type not supported", options |-> <<>>]

\* HostapdConfGenerator.generate(path): opens the file for writing, then writes
\* the header and each block of options as soon as it is computed.  The lines
\* below are the option lines that reached the file; an exception leaves the
\* file with what was written before it.  (The devices explored set no htmode,
\* so the 802.11n and 802.11ac blocks are not written.)
generateFile(main, sec, path) ==
    IF main.err # None
    THEN [err |-> main.err, path |-> path,
          files |-> {[path |-> path, content |-> <<>>]}]
    ELSE IF sec.err # None
    THEN [err |-> sec.err, path |-> path,
          files |-> {[path |-> path, content |-> main.options]}]
    ELSE [err |-> None, path |-> path,
          files |-> {[path |-> path, content |-> main.options \o sec.options]}]

generate(wifiIface, wifiDevice, interface, path) ==
    generateFile(getMainOptions(wifiIface, wifiDevice, interface),
                 getSecurityOptions(wifiIface), path)

\* ConfigWifiIface.makeHostapdConf
makeHostapdConf(self, wifiDevice, interface) ==
    generate(self, wifiDevice, interface, HostapdConfPath(self.name))

(***************************************************************************)
(* confd: wifi-iface handler (wireless.py)                                 *)
(***************************************************************************)
\* ApplyPhysicalCommands with an interface added on the physical device
ApplyPhysicalCommands_addsInterface(wifiDevice, self) ==
    << Command(PRIO_CREATE_IFACE,
               <<"iw", "dev", wifiDevice.name, "interface", "add", wifiDevice.name, "type", "__ap">>,
               self),
       Command(PRIO_CONFIG_IFACE, <<"iw", "dev", wifiDevice.name, "set", "type", "__ap">>, self) >>

\* apply, lines 192-198 and 200-207: the interface uses the physical device
ApplyPhysicalCommands(wifiDevice, self) ==
    << Command(PRIO_CONFIG_IFACE, <<"iw", "dev", wifiDevice.name, "set", "type", "__ap">>, self) >>

\* ApplyVirtualCommands with the two commands appended in the other order
ApplyVirtualCommands_addressFirst(wifiDevice, ifname, self) ==
    << Command(PRIO_CREATE_IFACE,
               <<"ip", "link", "set", "dev", ifname, "address", RandomMAC>>, self),
       Command(PRIO_CREATE_IFACE,
               <<"iw", "dev", wifiDevice.name, "interface", "add", ifname, "type", "__ap">>, self) >>

\* apply, lines 216-226: create the virtual interface, give it a random MAC
ApplyVirtualCommands(wifiDevice, ifname, self) ==
    << Command(PRIO_CREATE_IFACE,
               <<"iw", "dev", wifiDevice.name, "interface", "add", ifname, "type", "__ap">>, self),
       Command(PRIO_CREATE_IFACE,
               <<"ip", "link", "set", "dev", ifname, "address", RandomMAC>>, self) >>

\* HostapdCommand with the negated priority that revert uses
HostapdCommand_negated(pidFile, confFile, self) ==
    << Command(-PRIO_START_DAEMON, <<"hostapd", "-P", pidFile, "-B", confFile>>, self) >>

\* apply, lines 233-234, and updateApply, lines 282-283: start hostapd
HostapdCommand(pidFile, confFile, self) ==
    << Command(PRIO_START_DAEMON, <<"hostapd", "-P", pidFile, "-B", confFile>>, self) >>

\* apply, lines 228-236: the conf file is generated, then hostapd is started
\* with the PID file of this section.  rt1 holds isVirtual and _ifname as set
\* on lines 186-214.
ApplyFinish(self, rt1, commands, conf, pidFile) ==
    IF conf.err # None
    THEN HandlerResult(conf.err, <<>>, rt1, conf.files)
    ELSE HandlerResult(None,
                       commands \o HostapdCommand(pidFile, conf.path, self),
                       [rt1 EXCEPT !.pidFile = pidFile], conf.files)

\* apply, lines 186-226, once isVirtual and _ifname are decided
ApplyInterface(self, wifiDevice, interface, isVirtual, ifname) ==
    ApplyFinish(self,
                [self.rt EXCEPT !.isVirtual = IF isVirtual THEN "True" ELSE "False",
                                !.ifname = ifname],
                IF isVirtual THEN ApplyVirtualCommands(wifiDevice, ifname, self)
                ELSE ApplyPhysicalCommands(wifiDevice, self),
                makeHostapdConf([self EXCEPT !.rt.isVirtual = IF isVirtual THEN "True" ELSE "False",
                                             !.rt.ifname = ifname],
                                wifiDevice, interface),
                HostapdPidPath(self.name))

\* apply, lines 186-214: physical when the ifname option or the network's
\* interface is the radio itself, else virtual, named by the ifname option or,
\* without one, after the network's interface.
ApplyLookedUp(self, wifiDevice, interface) ==
    ApplyInterface(self, wifiDevice, interface,
        ~(self.opts.ifname = wifiDevice.name \/ config_ifname(interface) = wifiDevice.name),
        IF self.opts.ifname = wifiDevice.name THEN self.opts.ifname
        ELSE IF config_ifname(interface) = wifiDevice.name THEN config_ifname(interface)
        ELSE IF self.opts.ifname = None THEN config_ifname(interface)
        ELSE self.opts.ifname)

\* ConfigWifiIface.apply(allConfigs)
ConfigWifiIface_apply(self, allConfigs) ==
    IF self.opts.mode = "sta"
    THEN HandlerResult("WiFi sta mode not implemented", <<>>, self.rt, {})
    ELSE IF self.opts.mode # "ap"
    THEN HandlerResult("Unsupported mode", <<>>, self.rt, {})
    ELSE IF ~Has(allConfigs, "wifi-device", self.opts.device)
            \/ ~Has(allConfigs, "interface", self.opts.network)
    THEN HandlerResult("LookupError", <<>>, self.rt, {})
    ELSE ApplyLookedUp(self,
                       Lookup(allConfigs, "wifi-device", self.opts.device),
                       Lookup(allConfigs, "interface", self.opts.network))

\* revert with the kill command appended inside the isVirtual branch
ConfigWifiIface_revert_killIfVirtual(self, allConfigs) ==
    IF self.rt.pidFile = Unset \/ self.rt.isVirtual = Unset
    THEN HandlerResult("AttributeError", <<>>, self.rt, {})
    ELSE HandlerResult(None,
            (IF self.rt.isVirtual = "True"
             THEN << Command(-PRIO_START_DAEMON, <<"KillCommand", self.rt.pidFile>>, self),
                     Command(-PRIO_CREATE_IFACE, <<"iw", "dev", self.rt.ifname, "del">>, self) >>
             ELSE <<>>),
            self.rt, {})

\* revert with the interface deleted at the priority of its configuration
ConfigWifiIface_revert_delAtConfig(self, allConfigs) ==
    IF self.rt.pidFile = Unset \/ self.rt.isVirtual = Unset
    THEN HandlerResult("AttributeError", <<>>, self.rt, {})
    ELSE HandlerResult(None,
            << Command(-PRIO_START_DAEMON, <<"KillCommand", self.rt.pidFile>>, self) >>
            \o (IF self.rt.isVirtual = "True"
                THEN << Command(-PRIO_CONFIG_IFACE, <<"iw", "dev", self.rt.ifname, "del">>, self) >>
                ELSE <<>>),
            self.rt, {})

\* revert with the interface deleted whether or not apply created it
ConfigWifiIface_revert_delAlways(self, allConfigs) ==
    IF self.rt.pidFile = Unset \/ self.rt.isVirtual = Unset
    THEN HandlerResult("AttributeError", <<>>, self.rt, {})
    ELSE HandlerResult(None,
            << Command(-PRIO_START_DAEMON, <<"KillCommand", self.rt.pidFile>>, self),
               Command(-PRIO_CREATE_IFACE, <<"iw", "dev", self.rt.ifname, "del">>, self) >>,
            self.rt, {})

\* ConfigWifiIface.revert(allConfigs): kill hostapd by its PID file, then delete
\* the virtual interface.  Reads self.pidFile, self.isVirtual and self._ifname.
ConfigWifiIface_revert(self, allConfigs) ==
    IF self.rt.pidFile = Unset \/ self.rt.isVirtual = Unset
    THEN HandlerResult("AttributeError", <<>>, self.rt, {})
    ELSE HandlerResult(None,
            << Command(-PRIO_START_DAEMON, <<"KillCommand", self.rt.pidFile>>, self) >>
            \o (IF self.rt.isVirtual = "True"
                THEN << Command(-PRIO_CREATE_IFACE, <<"iw", "dev", self.rt.ifname, "del">>, self) >>
                ELSE <<>>),
            self.rt, {})

\* the test of updateApply / updateRevert for a major change
MajorChange(self, new) ==
    \/ new.opts.mode # self.opts.mode
    \/ new.opts.device # self.opts.device
    \/ new.opts.network # self.opts.network

\* ConfigWifiIface.updateApply(new, allConfigs).  A major change returns
\* self.apply(allConfigs): the apply of the object updateApply was called on.
\* Otherwise the conf file of `new` is generated and hostapd started again; the
\* attributes set are those of `new`.
UpdateApplyFinish(self, new, conf, pidFile) ==
    IF conf.err # None
    THEN [HandlerResult(conf.err, <<>>, new.rt, conf.files) EXCEPT !.on = "new"]
    ELSE [HandlerResult(None, HostapdCommand(pidFile, conf.path, new),
                        [new.rt EXCEPT !.pidFile = pidFile], conf.files)
            EXCEPT !.on = "new"]

ConfigWifiIface_updateApply(self, new, allConfigs) ==
    IF MajorChange(self, new)
    THEN ConfigWifiIface_apply(self, allConfigs)
    ELSE IF new.opts.mode # "ap"
    THEN [HandlerResult(None, <<>>, new.rt, {}) EXCEPT !.on = "new"]
    ELSE IF ~Has(allConfigs, "wifi-device", new.opts.device)
            \/ ~Has(allConfigs, "interface", new.opts.network)
    THEN [HandlerResult("LookupError", <<>>, new.rt, {}) EXCEPT !.on = "new"]
    ELSE UpdateApplyFinish(self, new,
            makeHostapdConf(new, Lookup(allConfigs, "wifi-device", new.opts.device),
                            Lookup(allConfigs, "interface", new.opts.network)),
            HostapdPidPath(self.name))

\* ConfigWifiIface.updateRevert(new, allConfigs)
ConfigWifiIface_updateRevert(self, new, allConfigs) ==
    IF MajorChange(self, new)
    THEN ConfigWifiIface_revert(self, allConfigs)
    ELSE IF self.opts.mode # "ap"
    THEN HandlerResult(None, <<>>, self.rt, {})
    ELSE IF self.rt.pidFile = Unset
    THEN HandlerResult("AttributeError", <<>>, self.rt, {})
    ELSE HandlerResult(None,
            << Command(-PRIO_START_DAEMON, <<"KillCommand", self.rt.pidFile>>, self) >>,
            self.rt, {})

(***************************************************************************)
(* confd: dhcp handler (dhcp.py)                                           *)
(***************************************************************************)
\* 2^n, for the host part of a netmask
RECURSIVE Pow2(_)
Pow2(n) == IF n = 0 THEN 1 ELSE 2 * Pow2(n - 1)

\* ipaddress.IPv4Network("{}/{}".format(ipaddr, netmask), strict=False).network_address
network_address(interface) ==
    interface.opts.ipaddr - (interface.opts.ipaddr % Pow2(32 - interface.opts.netmask))

\* str(address): the dotted quad, as its four numbers
DottedQuad(n) == <<n \div 16777216, (n \div 65536) % 256, (n \div 256) % 256, n % 256>>

\* ConfigDhcp_write with dnsmasq started without a PID file argument
ConfigDhcp_write_noPidFile(self, interface, firstAddress, outputPath, pidFile) ==
    HandlerResult(None,
        << Command(PRIO_START_DAEMON, <<"/apps/bin/dnsmasq", ConfFileArg(outputPath)>>, self) >>,
        [self.rt EXCEPT !.pidFile = pidFile],
        {[path |-> outputPath,
          content |->
            << <<"interface", interface.opts.ifname>>,
               <<"dhcp-range", DottedQuad(firstAddress), DottedQuad(firstAddress + self.opts.limit),
                 self.opts.leasetime>>,
               <<"dhcp-leasefile", DnsmasqLeasePath(self.opts.interface)>> >>
            \o [i \in 1..Len(self.opts.dhcp_option) |-> <<"dhcp-option", self.opts.dhcp_option[i]>>]
            \o << <<"except-interface", "lo">>, <<"bind-interfaces", "">> >>]})

\* ConfigDhcp.commands(allConfigs): writes dnsmasq-<interface>.conf and returns
\* the command that starts dnsmasq.  The dnsmasq lookup falls back to the
\* default object (noresolv False, no server), which adds no line.
ConfigDhcp_write(self, interface, firstAddress, outputPath, pidFile) ==
    HandlerResult(None,
        << Command(PRIO_START_DAEMON, <<"/apps/bin/dnsmasq", ConfFileArg(outputPath), PidFileArg(pidFile)>>, self) >>,
        [self.rt EXCEPT !.pidFile = pidFile],
        {[path |-> outputPath,
          content |->
            << <<"interface", interface.opts.ifname>>,
               <<"dhcp-range", DottedQuad(firstAddress), DottedQuad(firstAddress + self.opts.limit),
                 self.opts.leasetime>>,
               <<"dhcp-leasefile", DnsmasqLeasePath(self.opts.interface)>> >>
            \o [i \in 1..Len(self.opts.dhcp_option) |-> <<"dhcp-option", self.opts.dhcp_option[i]>>]
            \o << <<"except-interface", "lo">>, <<"bind-interfaces", "">> >>]})

\* variant: the pool starts at the interface's own address plus start
ConfigDhcp_lookedUp_fromIpaddr(self, interface) ==
    ConfigDhcp_write(self, interface, interface.opts.ipaddr + self.opts.start,
                     DnsmasqConfPath(self.opts.interface), DnsmasqPidPath(self.opts.interface))

ConfigDhcp_lookedUp(self, interface) ==
    ConfigDhcp_write(self, interface, network_address(interface) + self.opts.start,
                     DnsmasqConfPath(self.opts.interface), DnsmasqPidPath(self.opts.interface))

ConfigDhcp_commands(self, allConfigs) ==
    IF ~Has(allConfigs, "interface", self.opts.interface)
    THEN HandlerResult("LookupError", <<>>, self.rt, {})
    ELSE ConfigDhcp_lookedUp(self, Lookup(allConfigs, "interface", self.opts.interface))

\* undoCommands with the exception of open() let through
ConfigDhcp_undoCommands_raises(self, allConfigs, pids) ==
    IF self.rt.pidFile = Unset
    THEN HandlerResult("AttributeError", <<>>, self.rt, {})
    ELSE IF self.rt.pidFile \in pids
    THEN HandlerResult(None,
            << Command(PRIO_START_DAEMON, <<"kill", PidContent>>, self) >>, self.rt, {})
    ELSE HandlerResult("IOError", <<>>, self.rt, {})

\* ConfigDhcp.undoCommands(allConfigs): one "kill <pid>" when the PID file can be
\* read, no command otherwise.  The priority is Command.PRIO_START_DAEMON as
\* written on line 90.
ConfigDhcp_undoCommands(self, allConfigs, pids) ==
    IF self.rt.pidFile = Unset
    THEN HandlerResult("AttributeError", <<>>, self.rt, {})
    ELSE IF self.rt.pidFile \in pids
    THEN HandlerResult(None,
            << Command(PRIO_START_DAEMON, <<"kill", PidContent>>, self) >>, self.rt, {})
    ELSE HandlerResult(None, <<>>, self.rt, {})

(***************************************************************************)
(* confd: network interface handler                                        *)
(***************************************************************************)
\* the address/prefix argument of "ip addr add" for the interfaces explored
AddrWithPrefix == "10.0.33.66/24"

\* ConfigInterface.apply: a bridge is created and its member enslaved; a static
\* interface gets its address and is brought up.
ConfigInterface_apply(self, allConfigs) ==
    HandlerResult(None,
        (IF self.opts.itype = "bridge"
         THEN << Command(PRIO_CREATE_IFACE,
                         <<"ip", "link", "add", "name", config_ifname(self), "type", "bridge">>, self),
                 Command(PRIO_ADD_LINK,
                         <<"ip", "link", "set", "dev", self.opts.ifname, "master", config_ifname(self)>>,
                         self) >>
         ELSE <<>>)
        \o (IF self.opts.proto = "static"
            THEN << Command(PRIO_CONFIG_IFACE,
                            <<"ip", "addr", "add", AddrWithPrefix, "dev", config_ifname(self)>>, self),
                    Command(PRIO_CONFIG_IFACE,
                            <<"ip", "link", "set", "dev", config_ifname(self), "up">>, self) >>
            ELSE <<>>),
        self.rt, {})

\* ConfigInterface.revert: the address is removed, a bridge device deleted.
ConfigInterface_revert(self, allConfigs) ==
    HandlerResult(None,
        (IF self.opts.proto = "static"
         THEN << Command(-PRIO_CONFIG_IFACE,
                         <<"ip", "addr", "del", AddrWithPrefix, "dev", config_ifname(self)>>, self) >>
         ELSE <<>>)
        \o (IF self.opts.itype = "bridge"
            THEN << Command(-PRIO_CREATE_IFACE,
                            <<"ip", "link", "delete", config_ifname(self)>>, self) >>
            ELSE <<>>),
        self.rt, {})

(***************************************************************************)
(* confd: configuration manager                                            *)
(***************************************************************************)
\* dispatch of apply by section type (wifi-device contributes no command)
Apply(sec, allConfigs) ==
    CASE sec.type = "wifi-iface" -> ConfigWifiIface_apply(sec, allConfigs)
      [] sec.type = "dhcp" -> ConfigDhcp_commands(sec, allConfigs)
      [] sec.type = "interface" -> ConfigInterface_apply(sec, allConfigs)
      [] OTHER -> HandlerResult(None, <<>>, sec.rt, {})

\* dispatch of revert by section type
Revert(sec, allConfigs, pids) ==
    CASE sec.type = "wifi-iface" -> ConfigWifiIface_revert(sec, allConfigs)
      [] sec.type = "dhcp" -> ConfigDhcp_undoCommands(sec, allConfigs, pids)
      [] sec.type = "interface" -> ConfigInterface_revert(sec, allConfigs)
      [] OTHER -> HandlerResult(None, <<>>, sec.rt, {})

\* the section types that override updateApply / updateRevert
OverridesUpdate(sec) == sec.type = "wifi-iface"

\* Diff, old side: a section of current that next lacks is reverted, one that
\* next holds with other options is update-reverted, an equal one is skipped.
RECURSIVE RevertSteps(_, _, _)
RevertSteps(cur, nxt, i) ==
    IF i > Len(cur) THEN <<>>
    ELSE (IF ~Has(nxt, cur[i].type, cur[i].name)
          THEN << [op |-> "revert", old |-> cur[i], new |-> cur[i]] >>
          ELSE IF SectionEq(cur[i], Lookup(nxt, cur[i].type, cur[i].name))
          THEN <<>>
          ELSE << [op |-> "updateRevert", old |-> cur[i],
                   new |-> Lookup(nxt, cur[i].type, cur[i].name)] >>)
         \o RevertSteps(cur, nxt, i + 1)

\* ApplySteps without the skip of an equal section
RECURSIVE ApplySteps_noSkip(_, _, _)
ApplySteps_noSkip(cur, nxt, i) ==
    IF i > Len(nxt) THEN <<>>
    ELSE (IF ~Has(cur, nxt[i].type, nxt[i].name)
          THEN << [op |-> "apply", old |-> nxt[i], new |-> nxt[i]] >>
          ELSE << [op |-> "updateApply", old |-> Lookup(cur, nxt[i].type, nxt[i].name),
                   new |-> nxt[i]] >>)
         \o ApplySteps_noSkip(cur, nxt, i + 1)

\* Diff, new side: a section of next that current lacks is applied, one that
\* current holds with other options is update-applied, an equal one is skipped.
RECURSIVE ApplySteps(_, _, _)
ApplySteps(cur, nxt, i) ==
    IF i > Len(nxt) THEN <<>>
    ELSE (IF ~Has(cur, nxt[i].type, nxt[i].name)
          THEN << [op |-> "apply", old |-> nxt[i], new |-> nxt[i]] >>
          ELSE IF SectionEq(Lookup(cur, nxt[i].type, nxt[i].name), nxt[i])
          THEN <<>>
          ELSE << [op |-> "updateApply", old |-> Lookup(cur, nxt[i].type, nxt[i].name),
                   new |-> nxt[i]] >>)
         \o ApplySteps(cur, nxt, i + 1)

\* the handler call one step of the diff makes
StepResult(step, allConfigs, pids) ==
    IF step.op = "revert" \/ (step.op = "updateRevert" /\ ~OverridesUpdate(step.old))
    THEN Revert(step.old, allConfigs, pids)
    ELSE IF step.op = "updateRevert"
    THEN ConfigWifiIface_updateRevert(step.old, step.new, allConfigs)
    ELSE IF step.op = "apply" \/ ~OverridesUpdate(step.old)
    THEN [Apply(step.new, allConfigs) EXCEPT !.on = "new"]
    ELSE ConfigWifiIface_updateApply(step.old, step.new, allConfigs)

\* the manager's record of a command: what the handler returned, whether it came
\* from the revert or the apply side, and its position among the contributions
Tag(cmds, kind, base) ==
    [i \in 1..Len(cmds) |->
        [prio |-> cmds[i].prio, argv |-> cmds[i].argv, owner |-> cmds[i].owner,
         kind |-> kind, seq |-> base + i]]

StepKind(step) == IF step.op \in {"revert", "updateRevert"} THEN "revert" ELSE "apply"

\* the commands of steps 1..n appended to acc, in step order
RECURSIVE Contributions(_, _, _, _, _)
Contributions(steps, res, i, n, acc) ==
    IF i > n THEN acc
    ELSE Contributions(steps, res, i + 1, n,
                       acc \o Tag(res[i].cmds, StepKind(steps[i]), Len(acc)))

\* the conf files steps 1..n opened for writing, in order
RECURSIVE Writes(_, _)
Writes(res, n) ==
    IF n = 0 THEN <<>>
    ELSE Writes(res, n - 1)
         \o (IF res[n].files = {} THEN <<>> ELSE << CHOOSE f \in res[n].files : TRUE >>)

\* the first step whose handler raised (0: none)
FirstErr(res) ==
    IF \A i \in 1..Len(res) : res[i].err = None THEN 0
    ELSE CHOOSE i \in 1..Len(res) :
            res[i].err # None /\ \A j \in 1..(i - 1) : res[j].err = None

PlanRecord(steps, res, firstErr) ==
    [err |-> IF firstErr = 0 THEN None ELSE res[firstErr].err,
     steps |-> steps,
     res |-> res,
     done |-> IF firstErr = 0 THEN Len(steps) ELSE firstErr,
     cmds |-> IF firstErr = 0 THEN Contributions(steps, res, 1, Len(steps), <<>>) ELSE <<>>,
     writes |-> Writes(res, IF firstErr = 0 THEN Len(steps) ELSE firstErr)]

PlanResults(steps, res) == PlanRecord(steps, res, FirstErr(res))

PlanSteps(steps, allConfigs, pids) ==
    PlanResults(steps, [i \in 1..Len(steps) |-> StepResult(steps[i], allConfigs, pids)])

\* Steps 1 and 2 of loadConfig: the diff of next against current and the handler
\* calls it makes, up to the first one that raises.
BuildPlan(cur, nxt, pids) ==
    PlanSteps(RevertSteps(cur, nxt, 1) \o ApplySteps(cur, nxt, 1), nxt, pids)

\* An object of current after the handler calls: a wifi-iface whose updateApply
\* ran self.apply carries the attributes that apply set.
OldAfter(old, p) ==
    IF \E i \in 1..p.done : p.steps[i].op = "updateApply" /\ p.steps[i].old = old
                            /\ p.res[i].on = "self"
    THEN [old EXCEPT !.rt =
            p.res[CHOOSE i \in 1..p.done :
                    p.steps[i].op = "updateApply" /\ p.steps[i].old = old].rt]
    ELSE old

\* the step of the diff that applied or update-applied the section `id`
ApplyStepOf(id, steps) ==
    CHOOSE i \in 1..Len(steps) :
        steps[i].op \in {"apply", "updateApply"} /\ Ident(steps[i].new) = id

\* the object a handler result describes
ResultObject(step, r) ==
    IF r.on = "new" THEN [step.new EXCEPT !.rt = r.rt] ELSE [step.old EXCEPT !.rt = r.rt]

\* An object of next after the handler calls: the object of current when the
\* section is unchanged, else the parsed object with the attributes the handler
\* set on it (none when the handler worked on the old object).
NewAfterStep(new, r) == IF r.on = "new" THEN [new EXCEPT !.rt = r.rt] ELSE new

NewAfter(new, cur, p) ==
    IF Has(cur, new.type, new.name) /\ SectionEq(Lookup(cur, new.type, new.name), new)
    THEN Lookup(cur, new.type, new.name)
    ELSE NewAfterStep(new, p.res[ApplyStepOf(Ident(new), p.steps)])

\* the owners of the apply commands among commands i..n of plan, in order of
\* first appearance
RECURSIVE AppliedOwners(_, _, _, _)
AppliedOwners(plan, i, n, acc) ==
    IF i > n THEN acc
    ELSE AppliedOwners(plan, i + 1, n,
                       IF plan[i].kind = "apply" /\ plan[i].owner \notin Range(acc)
                       THEN Append(acc, plan[i].owner) ELSE acc)

\* The symmetric revert of one apply-side step, called on the object that step's
\* handler worked on: revert for an added section, updateRevert towards the
\* other version for a changed section whose type overrides the update pair.
RollbackStep(step, r, allConfigs, pids) ==
    IF step.op = "updateApply" /\ OverridesUpdate(step.old)
    THEN ConfigWifiIface_updateRevert(ResultObject(step, r),
                                      IF r.on = "new" THEN step.old ELSE step.new,
                                      allConfigs)
    ELSE Revert(ResultObject(step, r), allConfigs, pids)

RollbackAt(i, p, allConfigs, pids) == RollbackStep(p.steps[i], p.res[i], allConfigs, pids)

\* the revert commands of the sections in owners, concatenated
RECURSIVE RevertsOf(_, _, _, _)
RevertsOf(owners, nxt, p, pids) ==
    IF owners = <<>> THEN <<>>
    ELSE RollbackAt(ApplyStepOf(Head(owners), p.steps), p, nxt, pids).cmds
         \o RevertsOf(Tail(owners), nxt, p, pids)

\* Failure policy: the revert commands for the sections whose apply commands had
\* already run when command number failIdx of plan failed.
Rollback(plan, failIdx, nxt, p, pids) ==
    SortByPrio(Tag(RevertsOf(AppliedOwners(plan, 1, failIdx - 1, <<>>), nxt, p, pids),
                   "revert", 0))

\* whether the batch is aborted: a command from the apply side exits non-zero
\* (a failing revert command is recorded and the batch goes on)
Aborts(plan, execute, failIdx) ==
    execute /\ failIdx > 0 /\ plan[failIdx].kind = "apply"

\* step 4 of loadConfig: the collection that becomes current
Commit(cur, nxt, p) == [i \in 1..Len(nxt) |-> NewAfter(nxt[i], cur, p)]

\* current when loadConfig does not commit: the same sections
Keep(cur, p) == [i \in 1..Len(cur) |-> OldAfter(cur[i], p)]

(***************************************************************************)
(* UpdateObject                                                            *)
(***************************************************************************)
\* UpdateChute.updateModuleList, by position
updateModuleList == <<"name", "state", "runtime", "files", "struct", "resource", "traffic">>

UpdateTypes == {"create", "update", "delete", "start", "stop", "restart"}

\* A plan entry: the module that contributed it, its priority, and whether the
\* function it names fails when invoked with the update.
PlanEntries == [module : 1..Len(updateModuleList), prio : 1..MaxPlanPrio, fails : BOOLEAN]

\* The plan lists generatePlans can leave in update.plans: the modules are asked
\* in updateModuleList order, each contributing at most one entry here.
PlanLists ==
    {s \in UNION {[1..n -> PlanEntries] : n \in 0..MaxPlans} :
        \A i \in 1..(Len(s) - 1) : s[i].module < s[i + 1].module}

\* exc.executionplan.aggregatePlans: the entries sorted stably by priority
aggregatePlans(ps) == SortByPrio(ps)

\* UpdateObject.complete(**kwargs): the result it stores in update.result
\* (kwargs holds the key 'responses' only in debug mode)
complete(success, message) ==
    [isSet |-> TRUE, success |-> success, message |-> message,
     hasResponses |-> debugMode,
     responses |-> IF debugMode THEN responses ELSE <<>>]

\* update.result before complete() ran: the attribute does not exist
NoResult ==
    [isSet |-> FALSE, success |-> FALSE, message |-> None,
     hasResponses |-> FALSE, responses |-> <<>>]

\* The message of a successful update: 'Chute {} {} success'.format(name, updateType)
SuccessMessage ==
    CASE updateType = "create" -> "Chute create success"
      [] updateType = "update" -> "Chute update success"
      [] updateType = "delete" -> "Chute delete success"
      [] updateType = "start" -> "Chute start success"
      [] updateType = "stop" -> "Chute stop success"
      [] updateType = "restart" -> "Chute restart success"

InitUpdate ==
    /\ upc = "created"
    /\ updateType \in UpdateTypes
    /\ debugMode \in BOOLEAN
    /\ failure = None
    /\ responses = <<>>
    /\ plans = <<>>
    /\ genFailed = FALSE
    /\ aggregated = FALSE
    /\ aggPlans = <<>>
    /\ executed = <<>>
    /\ aborted = <<>>
    /\ result = NoResult
    /\ funcCalls = 0
    /\ raisedExc = None

\* execute(), line 73: exc.executionplan.generatePlans(self).  Each module may
\* append plan entries and responses; a module that fails sets update.failure
\* and makes generatePlans return a truthy value.
execute_generatePlans ==
    /\ upc = "created"
    /\ \E ps \in PlanLists, failed \in BOOLEAN :
        /\ plans' = ps
        /\ genFailed' = failed
        /\ failure' = IF failed THEN "generate failed" ELSE None
        /\ responses' = IF failed THEN <<"warning">> ELSE <<>>
    /\ upc' = "generated"
    /\ UNCHANGED <<updateType, debugMode, aggregated, aggPlans, executed, aborted,
                   result, funcCalls, raisedExc, confVars, netVars, wifiVars, ifaceVars, dhcpVars, dockerVars, sectVars>>

\* execute(), lines 73-76: the failure branch.  Its first statement is
\* out.warn('...' % logPrefix()); the module imports neither `out` nor
\* `logPrefix` (lines 10-12), so evaluating it raises NameError and the
\* self.complete(success=False, ...) of line 75 is never reached.
execute_generateFailed ==
    /\ upc = "generated"
    /\ genFailed
    /\ raisedExc' = "NameError"
    /\ upc' = "raised"
    /\ UNCHANGED <<updateType, debugMode, failure, responses, plans, genFailed,
                   aggregated, aggPlans, executed, aborted, result, funcCalls, confVars, netVars, wifiVars, ifaceVars, dhcpVars, dockerVars, sectVars>>

\* execute(), line 79: exc.executionplan.aggregatePlans(self); its return value
\* is ignored.  The callee is handed the update object and may record a failure
\* on it (update.failure), as any step of the pipeline may.
execute_aggregatePlans ==
    /\ upc = "generated"
    /\ ~genFailed
    /\ aggPlans' = aggregatePlans(plans)
    /\ aggregated' = TRUE
    /\ \E aggFailed \in BOOLEAN :
          failure' = IF aggFailed THEN "aggregate failed" ELSE failure
    /\ upc' = "aggregated"
    /\ UNCHANGED <<updateType, debugMode, responses, plans, genFailed,
                   executed, aborted, result, funcCalls, raisedExc, confVars, netVars, wifiVars, ifaceVars, dhcpVars, dockerVars, sectVars>>

\* execute(), lines 81-88: "Execute on those plans" is a TODO, no plan entry is
\* invoked; execute goes straight to self.complete(success=True, ...), which
\* stores the result and calls self.func(self).
execute_complete ==
    /\ upc = "aggregated"
    /\ result' = complete(TRUE, SuccessMessage)
    /\ funcCalls' = funcCalls + 1
    /\ upc' = "returned"
    /\ UNCHANGED <<updateType, debugMode, failure, responses, plans, genFailed,
                   aggregated, aggPlans, executed, aborted, raisedExc, confVars, netVars, wifiVars, ifaceVars, dhcpVars, dockerVars, sectVars>>

NextUpdate ==
    \/ execute_generatePlans
    \/ execute_generateFailed
    \/ execute_aggregatePlans
    \/ execute_complete

(***************************************************************************)
(* The configurations explored                                             *)
(***************************************************************************)
\* the usual declaration of wifi-iface ap1 on device d (virtual unless the
\* network's interface is the device itself)
Ap1(d) == WifiIface("ap1", d, "ap", "Paradrop1", "psk2", "password", None)

Ap2(d) == WifiIface("ap2", d, "ap", "Paradrop3", "none", None, None)

\* interface wifi and wifi-device radio, as in the test suite's AP configuration
RadioBase == << IntfWifi(None), WifiDevice("radio") >>

LanDhcp(limit) == << IntfLan, Dhcp("lan", "lan", 100, limit) >>

\* What a configuration file can parse into: the sections in file order.
Configs ==
    { <<>>,
      RadioBase,
      RadioBase \o << Ap1("radio") >>,
      RadioBase \o << Ap1("radio"), Ap2("radio") >>,
      \* ap1 with another ssid and key: a minor change
      RadioBase \o << WifiIface("ap1", "radio", "ap", "Paradrop2", "psk2", "hexkey64", None) >>,
      \* ap1 in station mode
      RadioBase \o << WifiIface("ap1", "radio", "sta", "Paradrop1", "psk2", "password", None) >>,
      \* the wifi-device is the interface of network wifi: ap1 is physical
      << IntfWifi(None), WifiDevice("wlan0"), Ap1("wlan0") >>,
      \* network wifi is a bridge
      << IntfWifi("bridge"), WifiDevice("wlan0"), Ap1("wlan0") >>,
      \* two radios, ap1 on one or the other: a major change
      << IntfWifi(None), WifiDevice("radio"), WifiDevice("wlan0"), Ap1("radio") >>,
      << IntfWifi(None), WifiDevice("radio"), WifiDevice("wlan0"), Ap1("wlan0") >>,
      \* a wifi-iface whose wifi-device section is missing
      << IntfWifi(None), Ap1("radio") >>,
      \* DHCP on interface lan, two pool sizes, beside an access point
      RadioBase \o << Ap1("radio") >> \o LanDhcp(100),
      RadioBase \o << Ap1("radio") >> \o LanDhcp(150),
      \* a dhcp section whose interface is missing
      << Dhcp("lan", "lan", 100, 100) >> }

\* the PID files the environment (a daemon, or a test) may write or remove
EnvPidFiles == { DnsmasqPidPath("lan") }

(***************************************************************************)
(* Dynamic network pool (lib/config/pool.py, modelled from the              *)
(* specification) and getNetworkConfig (lib/config/network.py)              *)
(***************************************************************************)
\* number of /24 subnets in the dynamic network pool
PoolSize == 4

\* settings.DYNAMIC_NETWORK_POOL: the first address of the supernet, 10.128.0.0
PoolBase == 176160768

MAX_INTERFACE_NAME_LEN == 15

QuadToInt(q) == q[1] * 16777216 + q[2] * 65536 + q[3] * 256 + q[4]

\* one number of str(subnet.netmask): the k-th of a prefix length
NetmaskOctet(prefixlen, k) ==
    IF prefixlen >= 8 * k THEN 255
    ELSE IF prefixlen <= 8 * (k - 1) THEN 0
    ELSE 256 - Pow2(8 * k - prefixlen)

NetmaskQuad(prefixlen) == [k \in 1..4 |-> NetmaskOctet(prefixlen, k)]

\* the /24 subnets of the supernet, in address order
Subnets == [i \in 1..PoolSize |-> [address |-> PoolBase + (i - 1) * 256, prefixlen |-> 24]]

NoSubnet == [address |-> 0, prefixlen |-> 0]

\* next() without the test for subnets in use
NetworkPool_next_ignoreUsed(used) ==
    [err |-> None, subnet |-> Subnets[1], used |-> used \cup {Subnets[1]}]

\* NetworkPool.next(): the first subnet of the supernet that is not in use; an
\* empty pool is an error.
NetworkPool_next(used) ==
    IF \A i \in 1..PoolSize : Subnets[i] \in used
    THEN [err |-> "No items left in pool", subnet |-> NoSubnet, used |-> used]
    ELSE [err |-> None,
          subnet |-> Subnets[CHOOSE i \in 1..PoolSize :
                                /\ Subnets[i] \notin used
                                /\ \A j \in 1..(i - 1) : Subnets[j] \in used],
          used |-> used \cup {Subnets[CHOOSE i \in 1..PoolSize :
                                /\ Subnets[i] \notin used
                                /\ \A j \in 1..(i - 1) : Subnets[j] \in used]}]

\* NetworkPool.release(subnet)
NetworkPool_release(used, subnet) == used \ {subnet}

\* ---- names, as their characters ----
\* Python's s[0:k]
Slice(s, k) ==
    IF k >= 0 THEN SubSeq(s, 1, IF k < Len(s) THEN k ELSE Len(s))
    ELSE SubSeq(s, 1, IF Len(s) + k > 0 THEN Len(s) + k ELSE 0)

NameHotspot1 == <<"h", "o", "t", "s", "p", "o", "t", "c", "h", "u", "t", "e", "1">>

NameHotspot2 == <<"h", "o", "t", "s", "p", "o", "t", "c", "h", "u", "t", "e", "2">>

NameWeb == <<"w", "e", "b">>

ChuteNames == {NameHotspot1, NameHotspot2, NameWeb}

NameWifi == <<"w", "i", "f", "i">>

NameLan == <<"l", "a", "n">>

NameWan == <<"w", "a", "n">>

NameWifi2 == <<"w", "i", "f", "i", "2">>

NameWifi3 == <<"w", "i", "f", "i", "3">>

\* a declaration name of eleven characters
NameGuestNetwrk == <<"g", "u", "e", "s", "t", "n", "e", "t", "w", "r", "k">>

IntfWlan0 == <<"w", "l", "a", "n", "0">>

IntfEth0 == <<"e", "t", "h", "0">>

IntfWlan1 == <<"w", "l", "a", "n", "1">>

IntfWlan2 == <<"w", "l", "a", "n", "2">>

\* an intfName of fifteen characters
IntfLong == IntfWlan0 \o IntfWlan0 \o IntfWlan0

\* one entry of update.net: the declaration's name, the keys its dict holds, and
\* their values
NetDecl(name, fields, intfName, type) ==
    [name |-> name, fields |-> fields, intfName |-> intfName, type |-> type, ssid |-> "Paradrop1"]

WifiDecl == NetDecl(NameWifi, {"intfName", "type", "ssid"}, IntfWlan0, "wifi")

LanDecl == NetDecl(NameLan, {"intfName", "type"}, IntfEth0, "lan")

\* update.net, in the order iteritems() yields it
Nets ==
    { <<WifiDecl>>,
      <<LanDecl>>,
      <<WifiDecl, LanDecl>>,
      \* two declarations with the same intfName
      <<LanDecl, NetDecl(NameWan, {"intfName", "type"}, IntfEth0, "wan")>>,
      \* a declaration name longer than ten characters
      <<NetDecl(NameGuestNetwrk, {"intfName", "type", "ssid"}, IntfWlan0, "wifi")>>,
      \* an intfName of fifteen characters
      <<NetDecl(NameLan, {"intfName", "type"}, IntfLong, "lan")>>,
      \* a declaration without type
      <<NetDecl(NameLan, {"intfName"}, IntfEth0, "lan")>>,
      \* a wifi declaration without ssid, after a valid one
      <<LanDecl, NetDecl(NameWifi, {"intfName", "type"}, IntfWlan0, "wifi")>>,
      \* three wifi declarations around a wired one
      <<WifiDecl, LanDecl,
        NetDecl(NameWifi2, {"intfName", "type", "ssid"}, IntfWlan1, "wifi"),
        NetDecl(NameWifi3, {"intfName", "type", "ssid"}, IntfWlan2, "wifi")>> }

\* cache networkDevices, key 'wifi': the radios of the host
WifiDeviceLists == { <<>>, <<[name |-> "wlan0"]>>, <<[name |-> "wlan0"], [name |-> "wlan1"]>> }

\* the interface record with the chute given the address of the host
InterfaceRecord_sameHost(update, cfg, subnet, device) ==
    [name |-> cfg.name,
     netType |-> cfg.type,
     externalIntf |->
        Slice(update.name, MAX_INTERFACE_NAME_LEN - Len(cfg.intfName) - 1)
        \o <<".">> \o cfg.intfName,
     internalIntf |-> cfg.intfName,
     netmask |-> NetmaskQuad(subnet.prefixlen),
     externalIpaddr |-> DottedQuad(subnet.address + 1),
     internalIpaddr |-> DottedQuad(subnet.address + 1),
     ipaddrWithPrefix |-> <<DottedQuad(subnet.address + 1), subnet.prefixlen>>,
     device |-> device,
     ssid |-> IF cfg.type = "wifi" THEN cfg.ssid ELSE None]

\* getNetworkConfig, lines 87-127: the interface record
InterfaceRecord(update, cfg, subnet, device) ==
    [name |-> cfg.name,
     netType |-> cfg.type,
     externalIntf |->
        Slice(update.name, MAX_INTERFACE_NAME_LEN - Len(cfg.intfName) - 1)
        \o <<".">> \o cfg.intfName,
     internalIntf |-> cfg.intfName,
     netmask |-> NetmaskQuad(subnet.prefixlen),
     externalIpaddr |-> DottedQuad(subnet.address + 1),
     internalIpaddr |-> DottedQuad(subnet.address + 2),
     ipaddrWithPrefix |-> <<DottedQuad(subnet.address + 2), subnet.prefixlen>>,
     device |-> device,
     ssid |-> IF cfg.type = "wifi" THEN cfg.ssid ELSE None]

\* NetLease with every wifi interface given the first radio
NetLease_firstRadio(update, cfg, st, nx) ==
    IF nx.err # None
    THEN [st EXCEPT !.err = nx.err]
    ELSE IF cfg.type = "wifi" /\ update.wifi = <<>>
    THEN [st EXCEPT !.used = nx.used, !.leased = Append(@, nx.subnet),
                    !.err = "Missing WiFi device(s) requested by chute"]
    ELSE IF cfg.type = "wifi" /\ "ssid" \notin cfg.fields
    THEN [st EXCEPT !.used = nx.used, !.leased = Append(@, nx.subnet),
                    !.wifiNext = @ + 1,
                    !.err = "Interface definition missing field(s)"]
    ELSE [st EXCEPT !.used = nx.used, !.leased = Append(@, nx.subnet),
                    !.wifiNext = IF cfg.type = "wifi" THEN @ + 1 ELSE @,
                    !.interfaces =
                        Append(@, InterfaceRecord(update, cfg, nx.subnet,
                                    IF cfg.type = "wifi" THEN update.wifi[1].name
                                    ELSE None))]

\* getNetworkConfig, lines 60-127, once networkPool.next() has answered: the
\* lease is taken before the WiFi device and the ssid are checked.
NetLease(update, cfg, st, nx) ==
    IF nx.err # None
    THEN [st EXCEPT !.err = nx.err]
    ELSE IF cfg.type = "wifi" /\ update.wifi = <<>>
    THEN [st EXCEPT !.used = nx.used, !.leased = Append(@, nx.subnet),
                    !.err = "Missing WiFi device(s) requested by chute"]
    ELSE IF cfg.type = "wifi" /\ "ssid" \notin cfg.fields
    THEN [st EXCEPT !.used = nx.used, !.leased = Append(@, nx.subnet),
                    !.wifiNext = @ + 1,
                    !.err = "Interface definition missing field(s)"]
    ELSE [st EXCEPT !.used = nx.used, !.leased = Append(@, nx.subnet),
                    !.wifiNext = IF cfg.type = "wifi" THEN @ + 1 ELSE @,
                    !.interfaces =
                        Append(@, InterfaceRecord(update, cfg, nx.subnet,
                                    IF cfg.type = "wifi"
                                    THEN update.wifi[(st.wifiNext % Len(update.wifi)) + 1].name
                                    ELSE None))]

\* getNetworkConfig, lines 45-61: one declaration of update.net
NetStep(update, cfg, st) ==
    IF Len(cfg.name) > 10
    THEN [st EXCEPT !.err = "Interface name too long"]
    ELSE IF ~({"intfName", "type"} \subseteq cfg.fields)
    THEN [st EXCEPT !.err = "Interface definition missing field(s)"]
    ELSE NetLease(update, cfg, st, NetworkPool_next(st.used))

\* getNetworkConfig, line 45: the loop over update.net, left by an exception
RECURSIVE NetLoop(_, _, _)
NetLoop(update, i, st) ==
    IF i > Len(update.net) \/ st.err # None THEN st
    ELSE NetLoop(update, i + 1, NetStep(update, update.net[i], st))

\* getNetworkConfig(update)
getNetworkConfig(update, used) ==
    NetLoop(update, 1,
            [err |-> None, used |-> used, leased |-> <<>>, wifiNext |-> 0,
             interfaces |-> <<>>])

\* ---- operations on the pool and on chutes ----
NoPoolOp == [op |-> "none", subnet |-> NoSubnet, err |-> None, released |-> {}]

NoNetOp == [op |-> "none", chute |-> <<>>, net |-> <<>>, wifi |-> <<>>, err |-> None]

InitNet ==
    /\ poolUsed = {}
    /\ held = <<>>
    /\ poolOp = NoPoolOp
    /\ chutes = {}
    /\ netOp = NoNetOp

\* networkPool.next(), given its answer r
poolNext(r) ==
    /\ poolUsed' = r.used
    /\ held' = IF r.err = None THEN Append(held, r.subnet) ELSE held
    /\ poolOp' = [op |-> "next", subnet |-> r.subnet, err |-> r.err,
                  released |-> poolOp.released]
    /\ UNCHANGED <<chutes, netOp, updVars, confVars, wifiVars, ifaceVars, dhcpVars, dockerVars, sectVars>>

PoolNext == \E r \in {NetworkPool_next(poolUsed)} : poolNext(r)

\* networkPool.release(subnet) by the holder of a lease
PoolRelease ==
    \E i \in DOMAIN held :
        /\ poolUsed' = NetworkPool_release(poolUsed, held[i])
        /\ held' = SubSeq(held, 1, i - 1) \o SubSeq(held, i + 1, Len(held))
        /\ poolOp' = [op |-> "release", subnet |-> held[i], err |-> None,
                      released |-> poolOp.released \cup {held[i]}]
        /\ UNCHANGED <<chutes, netOp, updVars, confVars, wifiVars, ifaceVars, dhcpVars, dockerVars, sectVars>>

NextPool ==
    \/ PoolNext
    \/ PoolRelease

\* The creation of a chute, as far as the network configuration goes:
\* getNetworkConfig(update) with answer r.  Without update.net nothing is
\* cached; an exception fails the update and the chute does not come to exist.
createChute(update, r) ==
    /\ poolUsed' = r.used
    /\ held' = held \o r.leased
    /\ chutes' = IF r.err = None
                 THEN chutes \cup {[name |-> update.name, networkInterfaces |-> r.interfaces]}
                 ELSE chutes
    /\ netOp' = [op |-> "getNetworkConfig", chute |-> update.name, net |-> update.net,
                 wifi |-> update.wifi, err |-> r.err]
    /\ UNCHANGED <<poolOp, updVars, confVars, wifiVars, ifaceVars, dhcpVars, dockerVars, sectVars>>

\* update.net is absent (hasattr fails, line 39) or one of Nets
Updates(name) ==
    {[name |-> name, hasNet |-> FALSE, net |-> <<>>, wifi |-> <<>>]}
    \cup {[name |-> name, hasNet |-> TRUE, net |-> n, wifi |-> w] :
            n \in Nets, w \in WifiDeviceLists}

NoNetAnswer(used) ==
    [err |-> None, used |-> used, leased |-> <<>>, wifiNext |-> 0, interfaces |-> <<>>]

CreateChute ==
    \E name \in ChuteNames \ {c.name : c \in chutes} :
        \E update \in Updates(name) :
            createChute(update,
                        IF update.hasNet THEN getNetworkConfig(update, poolUsed)
                        ELSE NoNetAnswer(poolUsed))

\* dockerapi.removeChute(update): the container and the image are removed
\* (errors go to update.progress); the chute exists no more.
RemoveChute ==
    \E c \in chutes :
        /\ chutes' = chutes \ {c}
        /\ netOp' = [op |-> "removeChute", chute |-> c.name, net |-> <<>>, wifi |-> <<>>,
                     err |-> None]
        /\ UNCHANGED <<poolUsed, held, poolOp, updVars, confVars, wifiVars, ifaceVars, dhcpVars, dockerVars, sectVars>>

NextNet ==
    \/ CreateChute
    \/ RemoveChute

(***************************************************************************)
(* ConfigWifiIface.apply called on one wifi-iface section                  *)
(***************************************************************************)
\* the option values explored: the supported ones and one that is not
Modes == {"ap", "sta", "adhoc"}

Encryptions == {None, "none", "psk2", "wep"}

Keys == {None} \cup DOMAIN KeyChars

HwModes == {None, "11g", "11a", "11n"}

InterfaceTypes == {None, "bridge"}

\* wifi-iface ap1 on wifi-device radio and interface wifi, as in the test suite's
\* AP configuration, with the options above
GenInput(mode, encryption, key, hwmode, itype) ==
    [iface |-> WifiIface("ap1", "radio", mode, "Paradrop1", encryption, key, None),
     allConfigs |->
        << IntfWifi(itype),
           [WifiDevice("radio") EXCEPT !.opts.hwmode = hwmode],
           WifiIface("ap1", "radio", mode, "Paradrop1", encryption, key, None) >>]

GenInputs ==
    {GenInput(m, e, k, h, t) :
        m \in Modes, e \in Encryptions, k \in Keys, h \in HwModes, t \in InterfaceTypes}

\* apply has not been called
NoGen == [called |-> FALSE, res |-> HandlerResult(None, <<>>, UnsetRt, {})]

InitWifiIdle ==
    /\ genIn = GenInput("ap", "psk2", "password", None, None)
    /\ genOut = NoGen

InitWifi ==
    /\ genIn \in GenInputs
    /\ genOut = NoGen

\* section.apply(allConfigs), with the file makeHostapdConf wrote
WifiApply ==
    /\ ~genOut.called
    /\ genOut' = [called |-> TRUE,
                  res |-> ConfigWifiIface_apply(genIn.iface, genIn.allConfigs)]
    /\ UNCHANGED <<genIn, updVars, confVars, netVars, ifaceVars, dhcpVars, dockerVars, sectVars>>

NextWifi == WifiApply

\* ---- the handlers of one wifi-iface section, called as the manager calls ----
\* ---- them: apply, then revert, or updateRevert and updateApply for a     ----
\* ---- changed declaration                                                ----
Devices == {"radio", "wlan0"}

IfnameOptions == {None, "wlan0", "wlan1"}

\* wifi-iface ap1 on wifi-device d of interface wifi (ifname wlan0)
IfaceInput(mode, d, ifname, itype) ==
    [iface |-> WifiIface("ap1", d, mode, "Paradrop1", "psk2", "password", ifname),
     allConfigs |->
        << IntfWifi(itype), WifiDevice(d),
           WifiIface("ap1", d, mode, "Paradrop1", "psk2", "password", ifname) >>]

IfaceInputs ==
    {IfaceInput(m, d, n, t) :
        m \in {"ap", "sta"}, d \in Devices, n \in IfnameOptions, t \in InterfaceTypes}

\* the declarations section ap1 can change to: another ssid, another key, no
\* encryption (minor changes); another mode, device or network (major changes)
NewIfaces(old) ==
    {[old EXCEPT !.opts.ssid = "Paradrop2"],
     [old EXCEPT !.opts.key = "hexkey64"],
     [old EXCEPT !.opts.encryption = "none", !.opts.key = None],
     [old EXCEPT !.opts.mode = "sta"],
     [old EXCEPT !.opts.device = IF old.opts.device = "radio" THEN "wlan0" ELSE "radio"],
     [old EXCEPT !.opts.network = "lan"]}

NoIfaceOp(iface) ==
    [op |-> "none", new |-> iface, res |-> HandlerResult(None, <<>>, UnsetRt, {})]

InitIfaceIdle ==
    /\ ifIn = IfaceInput("ap", "radio", None, None)
    /\ ifApplied = NoGen
    /\ ifOp = NoIfaceOp(ifIn.iface)

InitIface ==
    /\ ifIn \in IfaceInputs
    /\ ifApplied = NoGen
    /\ ifOp = NoIfaceOp(ifIn.iface)

\* the configuration in which ap1 is declared as new: both radios and both
\* networks are declared, so that the old and the new declaration resolve
UpdateConfigs(new) ==
    << ifIn.allConfigs[1], IntfLan, WifiDevice("radio"), WifiDevice("wlan0"), new >>

\* the section object after apply: the declaration with the attributes apply set
IfaceSelf == [ifIn.iface EXCEPT !.rt = ifApplied.res.rt]

\* section.apply(allConfigs)
IfaceApply ==
    /\ ~ifApplied.called
    /\ ifApplied' = [called |-> TRUE,
                     res |-> ConfigWifiIface_apply(ifIn.iface, ifIn.allConfigs)]
    /\ UNCHANGED <<ifIn, ifOp, updVars, confVars, netVars, wifiVars, dhcpVars, dockerVars, sectVars>>

\* section.revert(allConfigs) on a section that was applied
IfaceRevert ==
    /\ ifApplied.called
    /\ ifApplied.res.err = None
    /\ ifOp.op = "none"
    /\ ifOp' = [op |-> "revert", new |-> ifIn.iface,
                res |-> ConfigWifiIface_revert(IfaceSelf, ifIn.allConfigs)]
    /\ UNCHANGED <<ifIn, ifApplied, updVars, confVars, netVars, wifiVars, dhcpVars, dockerVars, sectVars>>

\* old.updateRevert(new, allConfigs) on a section that was applied
IfaceUpdateRevert ==
    /\ ifApplied.called
    /\ ifApplied.res.err = None
    /\ ifOp.op = "none"
    /\ \E new \in NewIfaces(ifIn.iface) :
          ifOp' = [op |-> "updateRevert", new |-> new,
                   res |-> ConfigWifiIface_updateRevert(IfaceSelf, new, UpdateConfigs(new))]
    /\ UNCHANGED <<ifIn, ifApplied, updVars, confVars, netVars, wifiVars, dhcpVars, dockerVars, sectVars>>

\* old.updateApply(new, allConfigs), after updateRevert with the same new
IfaceUpdateApply ==
    /\ ifOp.op = "updateRevert"
    /\ ifOp.res.err = None
    /\ ifOp' = [op |-> "updateApply", new |-> ifOp.new,
                res |-> ConfigWifiIface_updateApply(IfaceSelf, ifOp.new, UpdateConfigs(ifOp.new))]
    /\ UNCHANGED <<ifIn, ifApplied, updVars, confVars, netVars, wifiVars, dhcpVars, dockerVars, sectVars>>

NextIface ==
    \/ IfaceApply
    \/ IfaceRevert
    \/ IfaceUpdateRevert
    \/ IfaceUpdateApply

\* ---- the handlers of dhcp sections, called as the manager calls them: ----
\* ---- commands() when a section is loaded, undoCommands() when it goes  ----
\* the dhcp sections of one configuration file
DhcpDecls ==
    { << Dhcp("lan", "lan", 100, 100) >>,
      << Dhcp("lan", "lan", 100, 150) >>,
      << Dhcp("lan", "lan", 100, 100), Dhcp("guest", "wifi", 100, 100) >>,
      \* two dhcp sections that name the same interface
      << Dhcp("lan", "lan", 100, 100), Dhcp("guest", "lan", 50, 20) >>,
      \* a pool of 200 addresses from host 100 of a /24
      << Dhcp("lan", "lan", 100, 200) >> }

\* the configurations explored: interfaces lan and wifi with the dhcp sections,
\* and one dhcp section whose interface is not declared
DhcpInputs ==
    {[secs |-> d, allConfigs |-> << IntfLan, IntfWifi(None) >> \o d] : d \in DhcpDecls}
    \cup {[secs |-> << Dhcp("lan", "lan", 100, 100) >>,
           allConfigs |-> << Dhcp("lan", "lan", 100, 100) >>]}

\* the PID files dnsmasq instances may write
DhcpPidFiles == {DnsmasqPidPath("lan"), DnsmasqPidPath("wifi")}

NoDhcpCall ==
    [called |-> FALSE, pidPresent |-> FALSE, res |-> HandlerResult(None, <<>>, UnsetRt, {})]

NoDhcpRes == [applied |-> NoDhcpCall, reverted |-> NoDhcpCall]

InitDhcpIdle ==
    /\ dhIn = [secs |-> <<>>, allConfigs |-> <<>>]
    /\ dhRes = <<>>
    /\ dhPids = {}

InitDhcp ==
    /\ dhIn \in DhcpInputs
    /\ dhRes = [i \in DOMAIN dhIn.secs |-> NoDhcpRes]
    /\ dhPids = {}

\* section i after commands(): the declaration with self.pidFile set
DhcpSelf(i) == [dhIn.secs[i] EXCEPT !.rt = dhRes[i].applied.res.rt]

\* section.commands(allConfigs)
DhcpCommands ==
    \E i \in DOMAIN dhIn.secs :
        /\ ~dhRes[i].applied.called
        /\ dhRes' = [dhRes EXCEPT ![i].applied =
                        [called |-> TRUE, pidPresent |-> FALSE,
                         res |-> ConfigDhcp_commands(dhIn.secs[i], dhIn.allConfigs)]]
        /\ UNCHANGED <<dhIn, dhPids, updVars, confVars, netVars, wifiVars, ifaceVars, dockerVars, sectVars>>

\* section.undoCommands(allConfigs) on a section whose commands() returned
DhcpUndoCommands ==
    \E i \in DOMAIN dhIn.secs :
        /\ dhRes[i].applied.called
        /\ dhRes[i].applied.res.err = None
        /\ ~dhRes[i].reverted.called
        /\ dhRes' = [dhRes EXCEPT ![i].reverted =
                        [called |-> TRUE,
                         pidPresent |-> dhRes[i].applied.res.rt.pidFile \in dhPids,
                         res |-> ConfigDhcp_undoCommands(DhcpSelf(i), dhIn.allConfigs, dhPids)]]
        /\ UNCHANGED <<dhIn, dhPids, updVars, confVars, netVars, wifiVars, ifaceVars, dockerVars, sectVars>>

\* a dnsmasq instance (or a test) writes its PID file
DhcpWritePidFile ==
    \E f \in DhcpPidFiles \ dhPids :
        /\ dhPids' = dhPids \cup {f}
        /\ UNCHANGED <<dhIn, dhRes, updVars, confVars, netVars, wifiVars, ifaceVars, dockerVars, sectVars>>

\* a PID file disappears
DhcpRemovePidFile ==
    \E f \in dhPids :
        /\ dhPids' = dhPids \ {f}
        /\ UNCHANGED <<dhIn, dhRes, updVars, confVars, netVars, wifiVars, ifaceVars, dockerVars, sectVars>>

NextDhcp ==
    \/ DhcpCommands
    \/ DhcpUndoCommands
    \/ DhcpWritePidFile
    \/ DhcpRemovePidFile

(***************************************************************************)
(* Container adapter: buildImage and _startChute (dockerapi.py)            *)
(***************************************************************************)
\* One line of the stream client.pull yields: its status, whether it has an
\* id, and whether progressDetail is set (a line that reports an error has no
\* status).
PullLine(status, hasId, progress) == [status |-> status, hasId |-> hasId, progress |-> progress]

LinePulling == PullLine("Pulling fs layer", TRUE, FALSE)

LineDownloading == PullLine("Downloading", TRUE, TRUE)

LineComplete == PullLine("Pull complete", TRUE, FALSE)

LineExists == PullLine("Already exists", TRUE, FALSE)

LineUpToDate == PullLine("Status: Image is up to date", FALSE, FALSE)

LineDownloaded == PullLine("Status: Downloaded newer image", FALSE, FALSE)

LineError == PullLine(None, FALSE, FALSE)

\* What the container engine can answer to a pull: every layer fetched, every
\* layer already present, some present and some fetched, an error after the
\* first layer, an error at once.
PullStreams ==
    { <<LinePulling, LinePulling, LineDownloading, LineComplete, LineDownloading,
        LineComplete, LineDownloaded>>,
      <<LineExists, LineExists, LineUpToDate>>,
      <<LineExists, LinePulling, LineDownloading, LineComplete, LineDownloaded>>,
      <<LinePulling, LinePulling, LineDownloading, LineComplete, LineError>>,
      <<LineError>> }

\* data['status'].strip().lower()
Lower(status) ==
    CASE status = "Pulling fs layer" -> "pulling fs layer"
      [] status = "Pull complete" -> "pull complete"
      [] status = "Already exists" -> "already exists"
      [] status = "Downloading" -> "downloading"
      [] OTHER -> "status"

\* _pullImage, lines 210-224: the lines that are counted
Counted(line) == ~line.progress /\ line.status # None /\ line.hasId

\* _pullImage: layers and complete after the first n lines of the stream
RECURSIVE PullCount(_, _, _, _)
PullCount(output, n, nLayers, nComplete) ==
    IF n > Len(output) THEN [layers |-> nLayers, complete |-> nComplete]
    ELSE IF Counted(output[n]) /\ Lower(output[n].status) = "pulling fs layer"
    THEN PullCount(output, n + 1, nLayers + 1, nComplete)
    ELSE IF Counted(output[n]) /\ Lower(output[n].status) = "pull complete"
    THEN PullCount(output, n + 1, nLayers, nComplete + 1)
    ELSE PullCount(output, n + 1, nLayers, nComplete)

\* _pullImage(update, client): True when layers were pulled and all completed
pullImage(output) ==
    /\ PullCount(output, 1, 0, 0).complete > 0
    /\ PullCount(output, 1, 0, 0).complete = PullCount(output, 1, 0, 0).layers

\* _buildImage: False when a line of the build output holds errorDetail
buildImageWorker(buildOutput) == buildOutput # "errorDetail"

\* buildImage, lines 140-158: the local build
LocalBuild(update, pulled) ==
    IF update.source = "none"
    THEN [pulled |-> pulled, built |-> FALSE,
          err |-> "No Dockerfile or download location supplied."]
    ELSE IF ~buildImageWorker(update.buildOutput)
    THEN [pulled |-> pulled, built |-> TRUE,
          err |-> "Building docker image failed; check your Dockerfile for errors."]
    ELSE [pulled |-> pulled, built |-> TRUE, err |-> None]

\* buildImage(update)
buildImage(update) ==
    IF update.external_image /\ pullImage(update.pullOutput)
    THEN [pulled |-> TRUE, built |-> FALSE, err |-> None]
    ELSE LocalBuild(update, update.external_image)

\* the pipework call of setup_net_interfaces for one interface record
PipeworkCmd(chute, iface) ==
    <<"/apps/paradrop/current/bin/pipework", iface.externalIntf, "-i", iface.internalIntf,
      chute, iface.ipaddrWithPrefix>>

\* setup_net_interfaces(chute): the processes spawned for the first n records;
\* the record number failAt is the one for which Popen raises OSError
RECURSIVE SetupNet(_, _, _, _, _)
SetupNet(chute, interfaces, n, failAt, spawned) ==
    IF n > Len(interfaces) THEN [spawned |-> spawned, err |-> None]
    ELSE IF interfaces[n].netType # "wifi"
    THEN SetupNet(chute, interfaces, n + 1, failAt, spawned)
    ELSE IF n = failAt
    THEN [spawned |-> spawned, err |-> "OSError"]
    ELSE SetupNet(chute, interfaces, n + 1, failAt,
                  Append(spawned, PipeworkCmd(chute, interfaces[n])))

\* _startChute with the interfaces set up whether or not the container started
startChuteWorker_setupAnyway(update) ==
    IF update.createFails
    THEN [started |-> FALSE, calls |-> <<"create_container">>, spawned |-> <<>>,
          err |-> "APIError"]
    ELSE [started |-> ~update.startFails,
          calls |-> <<"create_container", "start", "setup_net_interfaces">>,
          spawned |-> SetupNet(update.name, update.interfaces, 1, update.failAt, <<>>).spawned,
          err |-> IF update.startFails THEN "APIError"
                  ELSE SetupNet(update.name, update.interfaces, 1, update.failAt, <<>>).err]

\* _startChute(chute): create the container, start it, then set up its
\* interfaces; an exception of the engine is raised again
startChuteWorker(update) ==
    IF update.createFails
    THEN [started |-> FALSE, calls |-> <<"create_container">>, spawned |-> <<>>,
          err |-> "APIError"]
    ELSE IF update.startFails
    THEN [started |-> FALSE, calls |-> <<"create_container", "start">>, spawned |-> <<>>,
          err |-> "APIError"]
    ELSE [started |-> TRUE,
          calls |-> <<"create_container", "start", "setup_net_interfaces">>,
          spawned |-> SetupNet(update.name, update.interfaces, 1, update.failAt, <<>>).spawned,
          err |-> SetupNet(update.name, update.interfaces, 1, update.failAt, <<>>).err]

\* cache networkInterfaces of the chute, as getNetworkConfig fills it on a host
\* with two radios and an unused pool
DockerNets ==
    { <<WifiDecl>>, <<LanDecl>>, <<WifiDecl, LanDecl>>,
      <<LanDecl, WifiDecl, NetDecl(NameWifi2, {"intfName", "type", "ssid"}, IntfWlan1, "wifi")>> }

NetworkInterfacesOf(name, net) ==
    getNetworkConfig([name |-> name, hasNet |-> TRUE, net |-> net,
                      wifi |-> <<[name |-> "wlan0"], [name |-> "wlan1"]>>], {}).interfaces

\* the updates explored
DockerUpdate(ext, source, pull, build, net, createFails, startFails, failAt) ==
    [name |-> NameWeb, external_image |-> ext, source |-> source, pullOutput |-> pull,
     buildOutput |-> build, interfaces |-> NetworkInterfacesOf(NameWeb, net),
     createFails |-> createFails, startFails |-> startFails, failAt |-> failAt]

DockerUpdates ==
    {DockerUpdate(e, s, p, b, n, cf, sf, fa) :
        e \in BOOLEAN, s \in {"dockerfile", "download", "none"}, p \in PullStreams,
        b \in {"ok", "errorDetail"}, n \in DockerNets, cf \in BOOLEAN, sf \in BOOLEAN,
        fa \in 0..1}

NoBuild == [called |-> FALSE, pulled |-> FALSE, built |-> FALSE, err |-> None]

NoStart == [called |-> FALSE, started |-> FALSE, calls |-> <<>>, spawned |-> <<>>, err |-> None]

InitDockerIdle ==
    /\ dkIn = DockerUpdate(FALSE, "dockerfile", <<LineError>>, "ok", <<LanDecl>>, FALSE, FALSE, 0)
    /\ dkBuild = NoBuild
    /\ dkStart = NoStart

InitDocker ==
    /\ dkIn \in DockerUpdates
    /\ dkBuild = NoBuild
    /\ dkStart = NoStart

\* buildImage(update), given what it did
DockerBuildImage ==
    /\ ~dkBuild.called
    /\ \E r \in {buildImage(dkIn)} :
          dkBuild' = [called |-> TRUE, pulled |-> r.pulled, built |-> r.built, err |-> r.err]
    /\ UNCHANGED <<dkIn, dkStart, updVars, confVars, netVars, wifiVars, ifaceVars, dhcpVars, sectVars>>

\* startChute(update), once the image is there
DockerStartChute ==
    /\ dkBuild.called
    /\ dkBuild.err = None
    /\ ~dkStart.called
    /\ \E r \in {startChuteWorker(dkIn)} :
          dkStart' = [called |-> TRUE, started |-> r.started, calls |-> r.calls,
                      spawned |-> r.spawned, err |-> r.err]
    /\ UNCHANGED <<dkIn, dkBuild, updVars, confVars, netVars, wifiVars, ifaceVars, dhcpVars, sectVars>>

NextDocker ==
    \/ DockerBuildImage
    \/ DockerStartChute

(***************************************************************************)
(* Section objects compared: ConfigObject.optionsMatch                     *)
(***************************************************************************)
\* self.optionsMatch(other): the two are of the same type and every option of
\* that type holds the same value in both; the name is not looked at
optionsMatch_comparesName(self, other) ==
    /\ self.type = other.type
    /\ self.name = other.name
    /\ \A o \in DOMAIN self.opts : self.opts[o] = other.opts[o]

optionsMatch(self, other) ==
    /\ self.type = other.type
    /\ \A o \in DOMAIN self.opts : self.opts[o] = other.opts[o]

\* the sections compared: two radios on channel 1 or 6 (test_base), two access
\* points with one of two ssids, two interfaces
SectChoices ==
    {[WifiDevice(n) EXCEPT !.opts.channel = c] : n \in {"radio", "wlan0"}, c \in {"1", "6"}}
    \cup {WifiIface(n, "radio", "ap", ssid, "none", None, None) :
              n \in {"ap1", "ap2"}, ssid \in {"Paradrop1", "Paradrop3"}}
    \cup {IntfLan, IntfWifi(None)}

NoMatch == [called |-> FALSE, ab |-> FALSE, ba |-> FALSE, aa |-> FALSE]

InitSectIdle ==
    /\ omSelf = IntfLan
    /\ omOther = IntfLan
    /\ omRes = NoMatch

InitSect ==
    /\ omSelf \in SectChoices
    /\ omOther \in SectChoices
    /\ omRes = NoMatch

\* omSelf.optionsMatch(omOther), omOther.optionsMatch(omSelf) and
\* omSelf.optionsMatch(omSelf)
OptionsMatch ==
    /\ ~omRes.called
    /\ \E ab \in {optionsMatch(omSelf, omOther)}, ba \in {optionsMatch(omOther, omSelf)},
          aa \in {optionsMatch(omSelf, omSelf)} :
          omRes' = [called |-> TRUE, ab |-> ab, ba |-> ba, aa |-> aa]
    /\ UNCHANGED <<omSelf, omOther, updVars, confVars, netVars, wifiVars, ifaceVars, dhcpVars, dockerVars>>

NextSect ==
    \/ OptionsMatch

(***************************************************************************)
(* ConfigManager operations                                                *)
(***************************************************************************)
NoOp == [op |-> "none", status |-> "ok", err |-> None, execute |-> FALSE,
         failIdx |-> 0, executed |-> 0]

NoPlan == [valid |-> FALSE, cmds |-> <<>>]

InitConf ==
    /\ current = <<>>
    /\ previousCommands = <<>>
    /\ rollback = <<>>
    /\ lastOp = NoOp
    /\ prevCurrent = <<>>
    /\ lastNext = <<>>
    /\ written = <<>>
    /\ loadedPlan = NoPlan
    /\ pidFiles = {}

\* ConfigManager.loadConfig(search, execute), given the plan p it built: sort,
\* execute or record, and replace current on success.  failIdx is the number of
\* the command that exits non-zero (0: none).
loadConfig(nxt, p, plan, execute, failIdx) ==
    /\ prevCurrent' = current
    /\ lastNext' = nxt
    /\ written' = p.writes
    /\ IF p.err # None
       THEN /\ current' = Keep(current, p)
            /\ previousCommands' = previousCommands
            /\ rollback' = <<>>
            /\ loadedPlan' = NoPlan
            /\ lastOp' = [op |-> "loadConfig", status |-> "raised", err |-> p.err,
                          execute |-> execute, failIdx |-> 0, executed |-> 0]
       ELSE IF Aborts(plan, execute, failIdx)
       THEN /\ current' = Keep(current, p)
            /\ previousCommands' = plan
            /\ rollback' = Rollback(plan, failIdx, nxt, p, pidFiles)
            /\ loadedPlan' = NoPlan
            /\ lastOp' = [op |-> "loadConfig", status |-> "aborted", err |-> None,
                          execute |-> execute, failIdx |-> failIdx, executed |-> failIdx]
       ELSE /\ current' = Commit(current, nxt, p)
            /\ previousCommands' = plan
            /\ rollback' = <<>>
            /\ loadedPlan' = IF current = <<>> THEN [valid |-> TRUE, cmds |-> plan]
                              ELSE NoPlan
            /\ lastOp' = [op |-> "loadConfig", status |-> "ok", err |-> None,
                          execute |-> execute, failIdx |-> failIdx,
                          executed |-> IF execute THEN Len(plan) ELSE 0]
    /\ UNCHANGED pidFiles

LoadConfig ==
    \E nxt \in Configs :
        LET p == BuildPlan(current, nxt, pidFiles)
            plan == SortByPrio(p.cmds)
        IN  \E execute \in BOOLEAN :
            \E failIdx \in (IF execute THEN 0..Len(plan) ELSE {0}) :
                /\ loadConfig(nxt, p, plan, execute, failIdx)
                /\ UNCHANGED <<updVars, netVars, wifiVars, ifaceVars, dhcpVars, dockerVars, sectVars>>

\* ConfigManager.unload(execute): every section of current is reverted and
\* current becomes empty.  A revert command that fails is recorded and the
\* teardown goes on.
unload(p, plan, execute, failIdx) ==
    /\ prevCurrent' = current
    /\ lastNext' = <<>>
    /\ written' = p.writes
    /\ IF p.err # None
       THEN /\ current' = current
            /\ previousCommands' = previousCommands
            /\ lastOp' = [op |-> "unload", status |-> "raised", err |-> p.err,
                          execute |-> execute, failIdx |-> 0, executed |-> 0]
       ELSE /\ current' = <<>>
            /\ previousCommands' = plan
            /\ lastOp' = [op |-> "unload", status |-> "ok", err |-> None,
                          execute |-> execute, failIdx |-> failIdx,
                          executed |-> IF execute THEN Len(plan) ELSE 0]
    /\ rollback' = <<>>
    /\ loadedPlan' = IF lastOp.op = "loadConfig" THEN loadedPlan ELSE NoPlan
    /\ UNCHANGED pidFiles

Unload ==
    LET p == BuildPlan(current, <<>>, pidFiles)
        plan == SortByPrio(p.cmds)
    IN  \E execute \in BOOLEAN :
        \E failIdx \in (IF execute THEN 0..Len(plan) ELSE {0}) :
            /\ unload(p, plan, execute, failIdx)
            /\ UNCHANGED <<updVars, netVars, wifiVars, ifaceVars, dhcpVars, dockerVars, sectVars>>

\* a daemon (or a test) writes a PID file in writeDir
WritePidFile ==
    \E f \in EnvPidFiles \ pidFiles :
        /\ pidFiles' = pidFiles \cup {f}
        /\ UNCHANGED <<current, previousCommands, rollback, lastOp, prevCurrent,
                       lastNext, written, loadedPlan, updVars, netVars, wifiVars, ifaceVars, dhcpVars, dockerVars, sectVars>>

\* a PID file disappears from writeDir
RemovePidFile ==
    \E f \in pidFiles :
        /\ pidFiles' = pidFiles \ {f}
        /\ UNCHANGED <<current, previousCommands, rollback, lastOp, prevCurrent,
                       lastNext, written, loadedPlan, updVars, netVars, wifiVars, ifaceVars, dhcpVars, dockerVars, sectVars>>

NextConf ==
    \/ LoadConfig
    \/ Unload
    \/ WritePidFile
    \/ RemovePidFile

\* no update is being executed
InitUpdateIdle == InitUpdate /\ updateType = "create" /\ debugMode = FALSE

\* the configuration manager alone
InitConfOnly == InitUpdateIdle /\ InitConf /\ InitNet /\ InitWifiIdle /\ InitIfaceIdle /\ InitDhcpIdle /\ InitDockerIdle /\ InitSectIdle

SpecConf == InitConfOnly /\ [][NextConf]_vars

\* one update going through execute(): the configuration manager is idle
InitUpdateOnly == InitUpdate /\ InitConf /\ InitNet /\ InitWifiIdle /\ InitIfaceIdle /\ InitDhcpIdle /\ InitDockerIdle /\ InitSectIdle

SpecUpdate == InitUpdateOnly /\ [][NextUpdate]_vars

\* chutes created and removed
InitNetOnly == InitUpdateIdle /\ InitConf /\ InitNet /\ InitWifiIdle /\ InitIfaceIdle /\ InitDhcpIdle /\ InitDockerIdle /\ InitSectIdle

SpecNet == InitNetOnly /\ [][NextNet]_vars

\* the pool alone: next() and release in any order
InitPoolOnly == InitUpdateIdle /\ InitConf /\ InitNet /\ InitWifiIdle /\ InitIfaceIdle /\ InitDhcpIdle /\ InitDockerIdle /\ InitSectIdle

SpecPool == InitPoolOnly /\ [][NextPool]_vars

\* apply on one wifi-iface section, for every combination of the options
InitWifiOnly == InitUpdateIdle /\ InitConf /\ InitNet /\ InitWifi /\ InitIfaceIdle /\ InitDhcpIdle /\ InitDockerIdle /\ InitSectIdle

SpecWifi == InitWifiOnly /\ [][NextWifi]_vars

\* the handlers of one wifi-iface section, for every combination of device,
\* ifname option, bridge and mode
InitIfaceOnly == InitUpdateIdle /\ InitConf /\ InitNet /\ InitWifiIdle /\ InitIface /\ InitDhcpIdle /\ InitDockerIdle /\ InitSectIdle

SpecIface == InitIfaceOnly /\ [][NextIface]_vars

\* the handlers of the dhcp sections of one configuration
InitDhcpOnly == InitUpdateIdle /\ InitConf /\ InitNet /\ InitWifiIdle /\ InitIfaceIdle /\ InitDhcp /\ InitDockerIdle /\ InitSectIdle

SpecDhcp == InitDhcpOnly /\ [][NextDhcp]_vars

\* the image of one chute built and its container started
InitDockerOnly ==
    InitUpdateIdle /\ InitConf /\ InitNet /\ InitWifiIdle /\ InitIfaceIdle /\ InitDhcpIdle /\ InitDocker /\ InitSectIdle

SpecDocker == InitDockerOnly /\ [][NextDocker]_vars

\* two section objects compared
InitSectOnly ==
    InitUpdateIdle /\ InitConf /\ InitNet /\ InitWifiIdle /\ InitIfaceIdle /\ InitDhcpIdle /\ InitDockerIdle /\ InitSect

SpecSect == InitSectOnly /\ [][NextSect]_vars

\* execute() is over: it returned or an exception left it
ExecuteOver == upc \in {"returned", "raised"}

Reverse(s) == [i \in 1..Len(s) |-> s[Len(s) + 1 - i]]

\* C1: every run of execute, whether plan generation fails or succeeds,
\* invokes the completion continuation update.func exactly once.
C1_CompletesExactlyOnce == ExecuteOver => funcCalls = 1

\* C2: when generatePlans returns a truthy failure, execute calls
\* complete(success=False, message=update.failure) and neither aggregates nor
\* executes the plan.
C2_GenerateFailureCompletes ==
    (ExecuteOver /\ genFailed) =>
        /\ result = complete(FALSE, failure)
        /\ ~aggregated
        /\ executed = <<>>

\* index of the first entry of the aggregated plan that fails when invoked (0: none)
FirstFailing ==
    IF \E k \in 1..Len(aggPlans) : aggPlans[k].fails
    THEN CHOOSE k \in 1..Len(aggPlans) :
            aggPlans[k].fails /\ \A j \in 1..(k - 1) : ~aggPlans[j].fails
    ELSE 0

\* C3: when a plan entry fails during execution, the entries up to it were
\* invoked in order, the abort entries of exactly the entries executed before it
\* ran in reverse order, update.failure is set and the update completes with
\* success=false.
C3_FailedEntryAborts ==
    (ExecuteOver /\ aggregated /\ FirstFailing > 0) =>
        /\ executed = SubSeq(aggPlans, 1, FirstFailing)
        /\ aborted = Reverse(SubSeq(aggPlans, 1, FirstFailing - 1))
        /\ failure /= None
        /\ result.isSet
        /\ result.success = FALSE

\* C4: an update is completed with success=true only after every aggregated plan
\* entry has been invoked, in ascending priority order.
C4_SuccessAfterAllEntries ==
    (result.isSet /\ result.success) =>
        /\ aggregated
        /\ executed = aggPlans

(***************************************************************************)
(* Properties of the configuration manager                                 *)
(***************************************************************************)
Owners(cmds) == {cmds[i].owner : i \in DOMAIN cmds}

\* the sections whose apply-side commands ran before command number n of plan
AppliedBefore(plan, n) ==
    {plan[i].owner : i \in {j \in 1..(n - 1) : plan[j].kind = "apply"}}

\* the same sections in the same order (run-time attributes aside)
SameSections(a, b) == Len(a) = Len(b) /\ \A i \in DOMAIN a : SectionEq(a[i], b[i])

LoadAborted == lastOp.op = "loadConfig" /\ lastOp.status = "aborted"

IsIfaceAdd(c) == Len(c.argv) >= 5 /\ c.argv[1] = "iw" /\ c.argv[5] = "add"

IsSetAddress(c) == Len(c.argv) >= 6 /\ c.argv[1] = "ip" /\ c.argv[6] = "address"

IsHostapd(c) == c.argv[1] = "hostapd"

IsDaemonKill(c) == c.argv[1] \in {"KillCommand", "kill"}

IsIfaceDel(c) ==
    \/ c.argv[1] = "iw" /\ c.argv[Len(c.argv)] = "del"
    \/ c.argv[1] = "ip" /\ c.argv[3] = "delete"

C6_StreamSortedByPriority ==
    /\ \A i, j \in DOMAIN previousCommands :
          previousCommands[i].prio < previousCommands[j].prio => i < j
    /\ \A i, j \in DOMAIN previousCommands :
          (/\ previousCommands[i].owner = previousCommands[j].owner
           /\ IsIfaceAdd(previousCommands[i]) \/ IsSetAddress(previousCommands[i])
           /\ IsHostapd(previousCommands[j])) => i < j

\* C6 witness: a stream that holds the interface creation and the hostapd start
\* of a virtual AP
C6_Witness ==
    \E i, j \in DOMAIN previousCommands :
        /\ previousCommands[i].owner = previousCommands[j].owner
        /\ IsIfaceAdd(previousCommands[i])
        /\ IsHostapd(previousCommands[j])
        /\ previousCommands[i].prio < previousCommands[j].prio

\* C7: commands of equal priority are in the emitted stream in the order in
\* which the sections contributed them; for a virtual AP the interface is added
\* before its address is set.
C7_EqualPriorityKeepsOrder ==
    /\ \A i, j \in DOMAIN previousCommands :
          (i < j /\ previousCommands[i].prio = previousCommands[j].prio)
              => previousCommands[i].seq < previousCommands[j].seq
    /\ \A i, j \in DOMAIN previousCommands :
          (/\ previousCommands[i].owner = previousCommands[j].owner
           /\ IsIfaceAdd(previousCommands[i])
           /\ IsSetAddress(previousCommands[j])) => i < j

\* C7 witness: a stream in which two sections contributed commands of the same
\* priority, one of them the two commands of a virtual AP
C7_Witness ==
    \E i, j, k \in DOMAIN previousCommands :
        /\ previousCommands[i].owner = previousCommands[j].owner
        /\ IsIfaceAdd(previousCommands[i])
        /\ IsSetAddress(previousCommands[j])
        /\ previousCommands[k].owner # previousCommands[i].owner
        /\ previousCommands[k].prio = previousCommands[i].prio

\* an unload that directly follows the loadConfig of a configuration into the
\* empty manager
UnloadAfterLoad == lastOp.op = "unload" /\ lastOp.status = "ok" /\ loadedPlan.valid

C9_RevertPrioritiesNegated ==
    /\ \A i \in DOMAIN previousCommands :
          previousCommands[i].kind = "revert" => previousCommands[i].prio < 0
    /\ \A i, j \in DOMAIN previousCommands :
          (/\ previousCommands[i].kind = "revert"
           /\ previousCommands[j].kind = "revert"
           /\ IsDaemonKill(previousCommands[i])
           /\ IsIfaceDel(previousCommands[j])) => i < j

\* whether the section named id is the same in current before the last
\* loadConfig and in the configuration it parsed
UnchangedSection(id) ==
    /\ Has(prevCurrent, id[1], id[2])
    /\ Has(lastNext, id[1], id[2])
    /\ SectionEq(Lookup(prevCurrent, id[1], id[2]), Lookup(lastNext, id[1], id[2]))

AllUnchanged ==
    /\ \A i \in DOMAIN lastNext : UnchangedSection(Ident(lastNext[i]))
    /\ \A i \in DOMAIN prevCurrent : UnchangedSection(Ident(prevCurrent[i]))

\* C10: a loadConfig of a configuration whose sections all equal those of
\* current emits no command, and no section unchanged between current and next
\* contributes a command to the stream.
C10_UnchangedSectionsEmitNothing ==
    (lastOp.op = "loadConfig" /\ lastOp.status # "raised") =>
        /\ AllUnchanged => previousCommands = <<>>
        /\ \A i \in DOMAIN previousCommands :
              ~UnchangedSection(previousCommands[i].owner)

\* C10 witness: the configuration loaded, an access point among its sections,
\* is loaded once more
C10_Witness ==
    /\ lastOp.op = "loadConfig"
    /\ lastOp.status = "ok"
    /\ AllUnchanged
    /\ \E i \in DOMAIN prevCurrent : prevCurrent[i].type = "wifi-iface"
    /\ previousCommands = <<>>

(***************************************************************************)
(* Properties of the network pool and of getNetworkConfig                  *)
(***************************************************************************)
\* number of addresses of a subnet
NumAddresses(subnet) == Pow2(32 - subnet.prefixlen)

\* two networks share an address
Overlap(a, b) ==
    /\ a.address < b.address + NumAddresses(b)
    /\ b.address < a.address + NumAddresses(a)

\* C12: whatever next() and release calls have been made, the subnets leased
\* are /24 networks no two of which overlap, and a released subnet that has not
\* been handed out again is free for a later next().
C12_LeasedSubnetsDisjoint ==
    /\ \A i \in DOMAIN held : held[i].prefixlen = 24 /\ held[i].address % 256 = 0
    /\ \A i, j \in DOMAIN held : i # j => ~Overlap(held[i], held[j])
    /\ \A sn \in poolOp.released : sn \notin Range(held) => sn \notin poolUsed

\* C12 witness: next() hands out a subnet that had been released, while another
\* lease is outstanding
C12_Witness ==
    /\ poolOp.op = "next"
    /\ poolOp.err = None
    /\ poolOp.subnet \in poolOp.released
    /\ Len(held) >= 2

\* the interface records of the chutes that exist, each with its chute and position
InterfaceRecords ==
    UNION {{[chute |-> c.name, pos |-> i, rec |-> c.networkInterfaces[i]] :
                i \in DOMAIN c.networkInterfaces} : c \in chutes}

\* the subnets leased to the interfaces of the chutes that exist
LeasedToChutes ==
    {[address |-> QuadToInt(r.rec.externalIpaddr) - 1, prefixlen |-> 24] :
        r \in InterfaceRecords}

\* C13: when a chute has been removed, the subnets leased in the pool are those
\* of the interfaces of the chutes that still exist.
C13_RemovalReleasesLeases ==
    netOp.op = "removeChute" => poolUsed = LeasedToChutes

\* C14: no interface record carries an externalIntf of more than 15 characters,
\* and getNetworkConfig raises for a declaration whose name has more than 10.
C14_NameLengths ==
    /\ \A r \in InterfaceRecords : Len(r.rec.externalIntf) <= 15
    /\ (/\ netOp.op = "getNetworkConfig"
        /\ \E i \in DOMAIN netOp.net : Len(netOp.net[i].name) > 10) => netOp.err # None

\* C15: no two interface records, of one chute or of two, carry the same
\* externalIntf.
C15_ExternalIntfUnique ==
    \A r1, r2 \in InterfaceRecords :
        (r1.chute # r2.chute \/ r1.pos # r2.pos) => r1.rec.externalIntf # r2.rec.externalIntf

(***************************************************************************)
(* Properties of the DHCP pool written for dnsmasq                         *)
(***************************************************************************)
\* the network address of an interface, computed on the dotted quads: each
\* number of the address with the host bits of the netmask cleared
NetworkQuad(interface) ==
    [k \in 1..4 |->
        DottedQuad(interface.opts.ipaddr)[k]
          - (DottedQuad(interface.opts.ipaddr)[k]
               % (256 - NetmaskOctet(interface.opts.netmask, k)))]

\* the dhcp-range lines of a written file
DhcpRangeLines(f) ==
    {f.content[n] : n \in {m \in DOMAIN f.content : f.content[m][1] = "dhcp-range"}}

\* the dhcp sections of the configuration loaded whose file is f
DhcpSectionsOf(f) ==
    {lastNext[j] : j \in {m \in DOMAIN lastNext :
                            /\ lastNext[m].type = "dhcp"
                            /\ DnsmasqConfPath(lastNext[m].opts.interface) = f.path}}

\* C16: the dhcp-range line written for a dhcp section runs from the network
\* address of its interface plus start to that first address plus limit.
C16_DhcpRangeFromNetworkAddress ==
    \A i \in DOMAIN written :
        \A line \in DhcpRangeLines(written[i]) :
            /\ DhcpSectionsOf(written[i]) # {}
            /\ \A sec \in DhcpSectionsOf(written[i]) :
                  /\ Has(lastNext, "interface", sec.opts.interface)
                  /\ QuadToInt(line[2]) =
                        QuadToInt(NetworkQuad(Lookup(lastNext, "interface", sec.opts.interface)))
                          + sec.opts.start
                  /\ QuadToInt(line[3]) = QuadToInt(line[2]) + sec.opts.limit

\* C16 witness: a pool of 150 addresses from 10.0.33.100 was written for an
\* interface whose own address is 10.0.33.66
C16_Witness ==
    /\ lastOp.op = "loadConfig"
    /\ lastOp.status = "ok"
    /\ \E i \in DOMAIN written :
          /\ written[i].path = DnsmasqConfPath("lan")
          /\ <<"dhcp-range", <<10, 0, 33, 100>>, <<10, 0, 33, 250>>, "12h">>
                \in DhcpRangeLines(written[i])

(***************************************************************************)
(* Properties of the hostapd configuration a wifi-iface generates          *)
(***************************************************************************)
\* the option lines of the files apply wrote
GenFileLines ==
    UNION {{f.content[n] : n \in DOMAIN f.content} : f \in genOut.res.files}

HasOption(name) == \E l \in GenFileLines : l[1] = name

OptionIs(name, value) == <<name, value>> \in GenFileLines

\* the section applied is an access point on a radio whose hardware mode
\* hostapd knows
GenAccessPoint ==
    /\ genOut.called
    /\ genIn.iface.opts.mode = "ap"
    /\ genIn.allConfigs[2].opts.hwmode \in {None, "11b", "11g", "11a"}

\* the keys explored that are 64 hexadecimal characters long
Hex64Keys == {"hexkey64", "upper64"}

\* C17: with encryption psk2 the file holds wpa_psk=<key> and no
\* wpa_passphrase when the key is exactly 64 hex characters, and
\* wpa_passphrase=<key> and no wpa_psk for every other key.
C17_PskOrPassphrase ==
    (GenAccessPoint /\ genIn.iface.opts.encryption = "psk2"
                    /\ genIn.iface.opts.key # None) =>
        /\ genOut.res.err = None
        /\ IF genIn.iface.opts.key \in Hex64Keys
           THEN OptionIs("wpa_psk", genIn.iface.opts.key) /\ ~HasOption("wpa_passphrase")
           ELSE OptionIs("wpa_passphrase", genIn.iface.opts.key) /\ ~HasOption("wpa_psk")
        /\ Cardinality({l \in GenFileLines : l[1] \in {"wpa_psk", "wpa_passphrase"}}) = 1

\* C17 witness: a key of 64 characters, one of them no hex digit, was written
\* as a passphrase
C17_Witness ==
    /\ GenAccessPoint
    /\ genIn.iface.opts.encryption = "psk2"
    /\ genIn.iface.opts.key = "nonhex64"
    /\ OptionIs("wpa_passphrase", "nonhex64")
    /\ ~HasOption("wpa_psk")

\* C18: encryption unset or none gives wpa=0; psk2 gives wpa=1 with
\* wpa_pairwise and rsn_pairwise; any other value fails with "Encryption type
\* not supported" and apply returns no hostapd command.
C18_EncryptionMapping ==
    GenAccessPoint =>
        /\ genIn.iface.opts.encryption \in {None, "none"} =>
              genOut.res.err = None /\ OptionIs("wpa", "0")
        /\ genIn.iface.opts.encryption = "psk2" =>
              /\ genOut.res.err = None
              /\ OptionIs("wpa", "1")
              /\ HasOption("wpa_pairwise")
              /\ HasOption("rsn_pairwise")
        /\ genIn.iface.opts.encryption \notin {None, "none", "psk2"} =>
              /\ genOut.res.err = "Encryption type not supported"
              /\ \A i \in DOMAIN genOut.res.cmds : ~IsHostapd(genOut.res.cmds[i])

\* the errors with which apply rejects a section's options
ValidationErrors ==
    {"WiFi sta mode not implemented", "Unsupported mode",
     "Encryption type not supported", "Unrecognized hardware mode"}

\* C20: when apply rejects a section (mode, encryption, hardware mode), it
\* returns no command and has created or changed no file.
C20_ValidationFailureTouchesNothing ==
    (genOut.called /\ genOut.res.err \in ValidationErrors) =>
        /\ genOut.res.cmds = <<>>
        /\ genOut.res.files = {}

(***************************************************************************)
(* Properties of loading a wifi-iface that is no access point              *)
(***************************************************************************)
\* the configuration loaded holds a wifi-iface whose mode is not ap
LoadsNonAp ==
    \E j \in DOMAIN lastNext :
        lastNext[j].type = "wifi-iface" /\ lastNext[j].opts.mode # "ap"

\* C19: a loadConfig of a configuration that holds a wifi-iface section whose
\* mode is not ap fails with an error, no command having been produced for it.
C19_NonApLoadFails ==
    (lastOp.op = "loadConfig" /\ LoadsNonAp) =>
        /\ lastOp.status = "raised"
        /\ \A j \in DOMAIN current :
              ~(current[j].type = "wifi-iface" /\ current[j].opts.mode # "ap")

(***************************************************************************)
(* Properties of the commands a wifi-iface's handlers return               *)
(***************************************************************************)
\* how many commands of cmds satisfy P
CountCmds(cmds, P(_)) == Cardinality({i \in DOMAIN cmds : P(cmds[i])})

\* apply returned for the section
IfaceApplied == ifApplied.called /\ ifApplied.res.err = None

\* the section uses the radio itself: its interface name is the radio's name
IfacePhysical == ifApplied.res.rt.ifname = ifIn.iface.opts.device

IsSetTypeAp(c) == c.argv = <<"iw", "dev", ifIn.iface.opts.device, "set", "type", "__ap">>

IsAddOfIface(c) ==
    c.argv = <<"iw", "dev", ifIn.iface.opts.device, "interface", "add",
               ifApplied.res.rt.ifname, "type", "__ap">>

IsAddressOfIface(c) ==
    c.argv = <<"ip", "link", "set", "dev", ifApplied.res.rt.ifname, "address", RandomMAC>>

IsSetType(c) == Len(c.argv) >= 5 /\ c.argv[1] = "iw" /\ c.argv[4] = "set" /\ c.argv[5] = "type"

AppliedPidFiles ==
    {ifApplied.res.cmds[i].argv[3] :
        i \in {j \in DOMAIN ifApplied.res.cmds : IsHostapd(ifApplied.res.cmds[j])}}

\* the interfaces apply created
AppliedIfaces ==
    {ifApplied.res.cmds[i].argv[6] :
        i \in {j \in DOMAIN ifApplied.res.cmds : IsIfaceAdd(ifApplied.res.cmds[j])}}

IsKillOfApplied(c) == c.argv[1] = "KillCommand" /\ c.argv[2] \in AppliedPidFiles

IsDelOfApplied(c) ==
    Len(c.argv) = 4 /\ c.argv[1] = "iw" /\ c.argv[4] = "del" /\ c.argv[3] \in AppliedIfaces

ArgvOf(cmds) == [i \in DOMAIN cmds |-> cmds[i].argv]

\* mode, device or network differs between the section and its new declaration
IfaceMajorChange ==
    \/ ifOp.new.opts.mode # ifIn.iface.opts.mode
    \/ ifOp.new.opts.device # ifIn.iface.opts.device
    \/ ifOp.new.opts.network # ifIn.iface.opts.network

\* C23: for a changed wifi-iface, when mode, device or network differs,
\* updateRevert returns what the full revert of the old section returns and
\* updateApply what the full apply of the new declaration returns; otherwise
\* updateRevert returns only the hostapd kill and updateApply only one hostapd
\* start, with no command that creates or deletes an interface.
C23_UpdateDelegatesOrReloads ==
    /\ ifOp.op = "updateRevert" =>
          IF IfaceMajorChange
          THEN ArgvOf(ifOp.res.cmds)
                 = ArgvOf(ConfigWifiIface_revert(IfaceSelf, UpdateConfigs(ifOp.new)).cmds)
          ELSE /\ Len(ifOp.res.cmds) = 1
               /\ CountCmds(ifOp.res.cmds, IsKillOfApplied) = 1
    /\ ifOp.op = "updateApply" =>
          IF IfaceMajorChange
          THEN /\ ifOp.res.err
                    = ConfigWifiIface_apply(ifOp.new, UpdateConfigs(ifOp.new)).err
               /\ ArgvOf(ifOp.res.cmds)
                    = ArgvOf(ConfigWifiIface_apply(ifOp.new, UpdateConfigs(ifOp.new)).cmds)
          ELSE /\ Len(ifOp.res.cmds) = 1
               /\ CountCmds(ifOp.res.cmds, IsHostapd) = 1

(***************************************************************************)
(* Properties of the commands and files of dhcp sections                   *)
(***************************************************************************)
\* commands() returned for section i
DhcpApplied(i) == dhRes[i].applied.called /\ dhRes[i].applied.res.err = None

\* the conf files commands() wrote for section i
DhcpConfFiles(i) == {f.path : f \in dhRes[i].applied.res.files}

\* C24: commands() of a dhcp section returns exactly one command, of priority
\* START_DAEMON, that launches dnsmasq with the conf file it wrote and its PID
\* file path; undoCommands() while the PID file exists with content p returns
\* exactly one command, "kill p".
C24_DhcpStartAndKill ==
    \A i \in DOMAIN dhRes :
        /\ DhcpApplied(i) =>
              /\ Len(dhRes[i].applied.res.cmds) = 1
              /\ dhRes[i].applied.res.cmds[1].prio = PRIO_START_DAEMON
              /\ DhcpConfFiles(i) = {DnsmasqConfPath(dhIn.secs[i].opts.interface)}
              /\ \E f \in DhcpConfFiles(i) :
                    dhRes[i].applied.res.cmds[1].argv =
                        <<"/apps/bin/dnsmasq", ConfFileArg(f),
                          PidFileArg(dhRes[i].applied.res.rt.pidFile)>>
        /\ (dhRes[i].reverted.called /\ dhRes[i].reverted.pidPresent) =>
              /\ dhRes[i].reverted.res.err = None
              /\ ArgvOf(dhRes[i].reverted.res.cmds) = << <<"kill", PidContent>> >>

\* C24 witness: a dhcp section was started and, its PID file present, reverted
\* with one kill
C24_Witness ==
    \E i \in DOMAIN dhRes :
        /\ DhcpApplied(i)
        /\ dhRes[i].reverted.called
        /\ dhRes[i].reverted.pidPresent
        /\ Len(dhRes[i].reverted.res.cmds) = 1

C26_SectionsOwnTheirFiles ==
    \A i, j \in DOMAIN dhRes :
        (i # j /\ DhcpApplied(i) /\ DhcpApplied(j)) =>
            /\ DhcpConfFiles(i) \cap DhcpConfFiles(j) = {}
            /\ dhRes[i].applied.res.rt.pidFile # dhRes[j].applied.res.rt.pidFile

(***************************************************************************)
(* Properties of the radios getNetworkConfig assigns                       *)
(***************************************************************************)
\* how many of the declarations before number k ask for wifi
WifiBefore(net, k) == Cardinality({j \in 1..(k - 1) : net[j].type = "wifi"})

\* some declaration of the update asks for wifi
AsksWifi(net) == \E k \in DOMAIN net : net[k].type = "wifi"

\* the chute getNetworkConfig has just filled the cache of
ChutesOfLastOp == {c \in chutes : c.name = netOp.chute}

\* C27: the wifi interfaces of a chute get the radios of cache networkDevices
\* in turn, the i-th (from 0) radio number i mod n; and when the chute asks for
\* wifi and there is no radio, getNetworkConfig raises and stores no record.
C27_RadiosRoundRobin ==
    netOp.op = "getNetworkConfig" =>
        /\ \A c \in ChutesOfLastOp :
              /\ netOp.err = None
              /\ Len(c.networkInterfaces) = Len(netOp.net)
              /\ \A k \in DOMAIN c.networkInterfaces :
                    c.networkInterfaces[k].device =
                        IF netOp.net[k].type = "wifi"
                        THEN netOp.wifi[(WifiBefore(netOp.net, k) % Len(netOp.wifi)) + 1].name
                        ELSE None
        /\ (AsksWifi(netOp.net) /\ netOp.wifi = <<>>) =>
              /\ netOp.err # None
              /\ ChutesOfLastOp = {}

\* C27 witness: of three wifi interfaces of one chute on a host with two
\* radios, the third got the first radio again
C27_Witness ==
    /\ netOp.op = "getNetworkConfig"
    /\ Len(netOp.wifi) = 2
    /\ \E c \in ChutesOfLastOp :
          /\ Len(c.networkInterfaces) = 4
          /\ c.networkInterfaces[1].device = "wlan0"
          /\ c.networkInterfaces[3].device = "wlan1"
          /\ c.networkInterfaces[4].device = "wlan0"

(***************************************************************************)
(* Properties of buildImage and of the interface set-up after start        *)
(***************************************************************************)
\* the registry pull went through: the engine reported no error
PullSucceeded == \A n \in DOMAIN dkIn.pullOutput : dkIn.pullOutput[n] # LineError

\* C29: buildImage for a chute with external_image runs no local build when the
\* registry pull succeeds; attempts a local build when the pull fails and a
\* dockerfile or a download is given; and raises when the pull fails and no
\* local source is given, or when the build fails.
C29_PullThenLocalBuild ==
    (dkBuild.called /\ dkIn.external_image) =>
        /\ dkBuild.pulled
        /\ PullSucceeded => (~dkBuild.built /\ dkBuild.err = None)
        /\ (~PullSucceeded /\ dkIn.source # "none") => dkBuild.built
        /\ (~PullSucceeded /\ dkIn.source = "none") => dkBuild.err # None
        /\ (dkBuild.built /\ dkIn.buildOutput = "errorDetail") => dkBuild.err # None

\* C30: once the container of a chute is started, the glue tool has been
\* spawned once for every record of cache networkInterfaces, in order, with
\* argv <tool> <externalIntf> -i <internalIntf> <chuteName> <ipaddrWithPrefix>.
C30_GlueForEveryInterface ==
    (dkStart.called /\ dkStart.started /\ dkStart.err = None) =>
        /\ Len(dkStart.spawned) = Len(dkIn.interfaces)
        /\ \A n \in DOMAIN dkStart.spawned :
              dkStart.spawned[n] =
                  <<"/apps/paradrop/current/bin/pipework", dkIn.interfaces[n].externalIntf,
                    "-i", dkIn.interfaces[n].internalIntf, dkIn.name,
                    dkIn.interfaces[n].ipaddrWithPrefix>>

\* C31: optionsMatch is reflexive and symmetric, is false for two sections of
\* different type, and for two sections of one type it is true exactly when all
\* option values agree, whatever the names of the two sections.
C31_OptionsMatchRelation ==
    omRes.called =>
        /\ omRes.aa
        /\ omRes.ab = omRes.ba
        /\ (omSelf.type # omOther.type) => ~omRes.ab
        /\ (omSelf.type = omOther.type) => (omRes.ab <=> (omSelf.opts = omOther.opts))

\* two sections of one type with different names and the same options compared
C31_Witness ==
    /\ omRes.called
    /\ omSelf.type = omOther.type
    /\ omSelf.name # omOther.name
    /\ omSelf.opts = omOther.opts
    /\ omRes.ab

\* the interface records of the chutes that exist: a chute and an index
CachedRecords == UNION {{<<c, k>> : k \in DOMAIN c.networkInterfaces} : c \in chutes}

RecordOf(p) == p[1].networkInterfaces[p[2]]

AddressesOf(rec) == {QuadToInt(rec.externalIpaddr), QuadToInt(rec.internalIpaddr)}

\* rec holds the first and the second host of the subnet sn
FromSubnet(rec, sn) ==
    /\ QuadToInt(rec.externalIpaddr) = sn.address + 1
    /\ QuadToInt(rec.internalIpaddr) = sn.address + 2
    /\ rec.ipaddrWithPrefix = <<rec.internalIpaddr, sn.prefixlen>>
    /\ rec.netmask = NetmaskQuad(sn.prefixlen)
    /\ \A ad \in AddressesOf(rec) : sn.address < ad /\ ad < sn.address + NumAddresses(sn) - 1

\* C32: every interface record of a chute that exists holds the first host of
\* a leased subnet as externalIpaddr and the second as internalIpaddr: the two
\* differ, both lie in that subnet, and no two records of the chutes that
\* exist share an address.
C32_AddressesFromLeasedSubnet ==
    /\ \A p \in CachedRecords :
          /\ \E sn \in poolUsed : FromSubnet(RecordOf(p), sn)
          /\ RecordOf(p).externalIpaddr # RecordOf(p).internalIpaddr
    /\ \A p, q \in CachedRecords :
          p # q => AddressesOf(RecordOf(p)) \cap AddressesOf(RecordOf(q)) = {}

\* C32 witness: two chutes exist, one of them with two interfaces
C32_Witness ==
    /\ Cardinality(chutes) >= 2
    /\ \E c \in chutes : Len(c.networkInterfaces) >= 2
    /\ \A c \in chutes : Len(c.networkInterfaces) >= 1
    /\ netOp.op = "getNetworkConfig"

\* buildImage returned at once because _pullImage returned True
PullReportedSuccess == dkBuild.pulled /\ ~dkBuild.built /\ dkBuild.err = None

\* C33: _pullImage returns True exactly when the pull succeeded (the stream of
\* the engine holds no error), also when no layer had to be fetched; so after a
\* successful pull buildImage returns without the local-build fallback.
C33_PullResultIsPullOutcome ==
    (dkBuild.called /\ dkIn.external_image) => (PullReportedSuccess <=> PullSucceeded)

\* the engine refuses to create or to start the container
EngineFails == dkIn.createFails \/ dkIn.startFails

\* C34: _startChute calls create_container, then start, then
\* setup_net_interfaces; when create_container or start raises, the error
\* leaves _startChute, setup_net_interfaces is not called and no glue tool is
\* spawned.
C34_CreateStartThenGlue ==
    dkStart.called =>
        /\ dkStart.calls = SubSeq(<<"create_container", "start", "setup_net_interfaces">>,
                                  1, Len(dkStart.calls))
        /\ ~EngineFails => Len(dkStart.calls) = 3
        /\ EngineFails =>
              /\ dkStart.err # None
              /\ dkStart.spawned = <<>>
              /\ Len(dkStart.calls) = IF dkIn.createFails THEN 1 ELSE 2

\* C34 witness: start failed for a chute with a wifi interface
C34_Witness ==
    /\ dkStart.called
    /\ ~dkIn.createFails
    /\ dkIn.startFails
    /\ dkIn.failAt = 0
    /\ \E n \in DOMAIN dkIn.interfaces : dkIn.interfaces[n].netType = "wifi"
    /\ dkStart.err = "APIError"

\* what apply of the new declaration returns in the new configuration
ApplyOfNew == ConfigWifiIface_apply(ifOp.new, UpdateConfigs(ifOp.new))

\* C35: when the mode, the device or the network of a wifi-iface changes, the
\* apply half of the update returns the commands of the new declaration (its
\* radio, its network interface, its ssid and security options), fails when
\* the new declaration cannot be applied, and writes the new conf file.
C35_MajorUpdateAppliesNew ==
    (ifOp.op = "updateApply" /\ IfaceMajorChange) =>
        /\ ifOp.res.err = ApplyOfNew.err
        /\ ArgvOf(ifOp.res.cmds) = ArgvOf(ApplyOfNew.cmds)
        /\ ifOp.res.files = ApplyOfNew.files

\* the section that is current after the update: the new declaration with the
\* attributes the update left on it
CurrentAfterUpdate == [ifOp.new EXCEPT !.rt = ifOp.res.rt]

IsDelOf(c, ifname) ==
    Len(c.argv) = 4 /\ c.argv[1] = "iw" /\ c.argv[4] = "del" /\ c.argv[3] = ifname

\* C36: after apply and a minor update (mode, device and network unchanged) of
\* an access point, the update succeeded and the section now current has
\* isVirtual, _ifname and pidFile set, so that its revert succeeds and deletes
\* the virtual interface the original apply created.
C36_CurrentSectionRevertible ==
    (ifOp.op = "updateApply" /\ ~IfaceMajorChange /\ ifIn.iface.opts.mode = "ap") =>
        /\ ifOp.res.err = None
        /\ ifOp.res.on = "new"
        /\ CurrentAfterUpdate.rt.isVirtual # Unset
        /\ CurrentAfterUpdate.rt.ifname # Unset
        /\ CurrentAfterUpdate.rt.pidFile # Unset
        /\ ConfigWifiIface_revert(CurrentAfterUpdate, UpdateConfigs(ifOp.new)).err = None
        /\ \A ifname \in AppliedIfaces :
              \E n \in DOMAIN ConfigWifiIface_revert(CurrentAfterUpdate, UpdateConfigs(ifOp.new)).cmds :
                  IsDelOf(ConfigWifiIface_revert(CurrentAfterUpdate, UpdateConfigs(ifOp.new)).cmds[n], ifname)

\* C37: in the plan of one loaded configuration, two interface-add commands
\* of two distinct wifi-iface sections on the same radio name different
\* interfaces.
C37_VirtualInterfaceNamesDistinct ==
    \A i, j \in DOMAIN previousCommands :
        ( /\ IsIfaceAdd(previousCommands[i])
          /\ IsIfaceAdd(previousCommands[j])
          /\ previousCommands[i].owner # previousCommands[j].owner
          /\ previousCommands[i].argv[3] = previousCommands[j].argv[3] )
        => previousCommands[i].argv[6] # previousCommands[j].argv[6]

\* getNetworkConfig raised in this step
GetNetworkConfigFailed == netOp'.op = "getNetworkConfig" /\ netOp'.err # None

\* C38: a getNetworkConfig that raises leaves the pool as it found it (no
\* subnet stays leased for the update) and leaves the networkInterfaces caches
\* unchanged.
C38_FailedConfigLeasesNothing ==
    [][GetNetworkConfigFailed => (poolUsed' = poolUsed /\ chutes' = chutes)]_vars

\* C39: an update is never completed with success=true while update.failure
\* is set; when aggregation has recorded a failure, execute completes the
\* update with success=false and that failure as message.
C39_NoSuccessWithFailure ==
    ExecuteOver =>
        /\ ~(result.isSet /\ result.success /\ failure # None)
        /\ (aggregated /\ failure # None) =>
              (result.isSet /\ ~result.success /\ result.message = failure)

\* the interface section a dhcp section names
DhcpInterfaceOf(sec) == Lookup(dhIn.allConfigs, "interface", sec.opts.interface)

\* the last address of the interface's network
BroadcastOf(interface) ==
    QuadToInt(NetworkQuad(interface)) + Pow2(32 - interface.opts.netmask) - 1

\* C40: the dhcp-range written for a dhcp section that commands() accepted
\* lies inside the network of its interface: network address < first <= last
\* < broadcast address.
C40_DhcpRangeInsideNetwork ==
    \A i \in DOMAIN dhRes :
        DhcpApplied(i) =>
            \A f \in dhRes[i].applied.res.files :
                \A line \in DhcpRangeLines(f) :
                    /\ QuadToInt(NetworkQuad(DhcpInterfaceOf(dhIn.secs[i]))) < QuadToInt(line[2])
                    /\ QuadToInt(line[2]) <= QuadToInt(line[3])
                    /\ QuadToInt(line[3]) < BroadcastOf(DhcpInterfaceOf(dhIn.secs[i]))

====
